---- MODULE Spec2Model ----
(***************************************************************************)
(* A model of entsquish's FileMerger (file_merger.go): MergeASTs,          *)
(* ResolveImportConflicts, CollectAllIdentifiers, GenerateUniqueAlias,     *)
(* SanitizeIdentifier, updateIdentifiersForDeclaration and                 *)
(* generateDeclarationSignature, with MergePackage and the loop of         *)
(* Extension.squishFiles (extension.go) around them.                       *)
(*                                                                         *)
(* Go strings are sequences of one-character strings, so that splitting a  *)
(* path, sanitizing a name, formatting a counter and sorting paths are     *)
(* computed character by character as the code computes them.              *)
(***************************************************************************)
EXTENDS Integers, Sequences, FiniteSets, TLC

VARIABLES
    input,              \* the units as handed to MergeASTs (history, never written)
    fileInfos,          \* the units as the program holds them: the ASTs are shared, mutable nodes
    pc,                 \* position in MergeASTs
    usedIdentifiers,    \* ResolveImportConflicts: usedIdentifiers
    pathToImport,       \* ResolveImportConflicts: pathToImport
    pathToAlias,        \* ResolveImportConflicts: pathToAlias
    aliasToPath,        \* ResolveImportConflicts: aliasToPath
    packageNameToAlias, \* ResolveImportConflicts: packageNameToAlias
    ii,                 \* index of the import or declaration a loop is at
    imports,            \* MergeASTs: imports, the resolved specs sorted by path
    allDecls,           \* MergeASTs: allDecls
    seenDecls,          \* MergeASTs: seenDecls
    firstTable,         \* the import table of the first ResolveImportConflicts call
    calls,              \* number of ResolveImportConflicts calls started
    packages,           \* squishFiles: the detected packages, each with what os.Stat and
                        \* the parser find in its files (never written)
    dryRun,             \* FileMerger.dryRun
    pi,                 \* squishFiles: index of the package being merged
    fx,                 \* parseFiles, removeOriginalFiles: index of the file the loop is at
    disk,               \* the paths at which a file exists
    parsedPaths,        \* the paths parser.ParseFile has built a tree for (history)
    written,            \* the output paths os.WriteFile has written, in order (history)
    removed,            \* the paths os.Remove has removed, in order (history)
    results,            \* what MergePackage returned for each package attempted
    returned,           \* what squishFiles returned
    sanitizeArg,        \* the name SanitizeIdentifier is called with
    sanitizeRet,        \* what it returned
    options,            \* NewExtension: the options it is called with
    env,                \* the environment variables NewExtension reads
    verboseLogging,     \* Extension.verboseLogging
    hooks,              \* what Hooks returned
    aliasArg,           \* the base name GenerateUniqueAlias is called with (never written)
    genBaseName,        \* GenerateUniqueAlias: baseName
    genCounter,         \* GenerateUniqueAlias: counter
    genAlias,           \* what GenerateUniqueAlias returned
    dirs,               \* the generation directory as FindSquishablePackages finds it
    found               \* what FindSquishablePackages returned

\* The variables of MergeASTs and ResolveImportConflicts.
mergeVars == <<input, fileInfos, pc, usedIdentifiers, pathToImport, pathToAlias,
               aliasToPath, packageNameToAlias, ii, imports, allDecls, seenDecls,
               firstTable, calls>>

\* The variables of squishFiles and MergePackage around them.
packageVars == <<packages, dryRun, pi, fx, disk, parsedPaths, written, removed,
                 results, returned>>

\* The variables of a direct call of SanitizeIdentifier.
sanitizeVars == <<sanitizeArg, sanitizeRet>>

\* The variables of NewExtension and Hooks.
extensionVars == <<options, env, verboseLogging, hooks>>

\* The variables of a direct call of GenerateUniqueAlias; its maps are
\* usedIdentifiers and aliasToPath.
aliasVars == <<aliasArg, genBaseName, genCounter, genAlias>>

\* The variables of a direct call of FindSquishablePackages.
detectorVars == <<dirs, found>>

vars == <<mergeVars, packageVars, sanitizeVars, extensionVars, aliasVars, detectorVars>>

-----------------------------------------------------------------------------
(* Strings *)

Lower == {"a","b","c","d","e","f","g","h","i","j","k","l","m",
          "n","o","p","q","r","s","t","u","v","w","x","y","z"}
Upper == {"A","B","C","D","E","F","G","H","I","J","K","L","M",
          "N","O","P","Q","R","S","T","U","V","W","X","Y","Z"}
Digit == {"0","1","2","3","4","5","6","7","8","9"}

\* A letter outside ASCII (U+00E9), two bytes in UTF-8.
NonASCII == "U+00E9"

\* The byte value of a character (ASCII), as sort.Strings compares them; of a
\* character outside ASCII, its first byte.
CharCode(c) ==
    CASE c = "\"" -> 34
      [] c = "*"  -> 42
      [] c = ","  -> 44
      [] c = "-"  -> 45
      [] c = NonASCII -> 195
      [] c = "."  -> 46
      [] c = "/"  -> 47
      [] c \in Digit -> 48 + (CHOOSE n \in 0..9 :
                          c = <<"0","1","2","3","4","5","6","7","8","9">>[n + 1])
      [] c = ":"  -> 58
      [] c \in Upper -> 65 + (CHOOSE n \in 0..25 :
                          c = <<"A","B","C","D","E","F","G","H","I","J","K","L","M",
                                "N","O","P","Q","R","S","T","U","V","W","X","Y","Z">>[n + 1])
      [] c = "_"  -> 95
      [] c \in Lower -> 97 + (CHOOSE n \in 0..25 :
                          c = <<"a","b","c","d","e","f","g","h","i","j","k","l","m",
                                "n","o","p","q","r","s","t","u","v","w","x","y","z">>[n + 1])

\* Go's < on strings: byte-wise lexicographic.
RECURSIVE StrLess(_, _)
StrLess(a, b) ==
    IF b = <<>> THEN FALSE
    ELSE IF a = <<>> THEN TRUE
    ELSE IF Head(a) = Head(b) THEN StrLess(Tail(a), Tail(b))
    ELSE CharCode(Head(a)) < CharCode(Head(b))

\* strconv of a non-negative int, as fmt's %d prints it.
RECURSIVE Itoa(_)
Itoa(n) ==
    LET d == <<"0","1","2","3","4","5","6","7","8","9">>[(n % 10) + 1]
    IN IF n < 10 THEN <<d>> ELSE Itoa(n \div 10) \o <<d>>

\* strings.Trim(s, `"`)
RECURSIVE TrimLeftQuote(_)
TrimLeftQuote(s) ==
    IF s # <<>> /\ Head(s) = "\"" THEN TrimLeftQuote(Tail(s)) ELSE s

RECURSIVE TrimRightQuote(_)
TrimRightQuote(s) ==
    IF s # <<>> /\ s[Len(s)] = "\"" THEN TrimRightQuote(SubSeq(s, 1, Len(s) - 1)) ELSE s

TrimQuotes(s) == TrimRightQuote(TrimLeftQuote(s))

\* The last element of strings.Split(s, "/").
RECURSIVE LastSegment(_)
LastSegment(s) ==
    IF \E k \in 1..Len(s) : s[k] = "/"
    THEN LastSegment(SubSeq(s, (CHOOSE k \in 1..Len(s) : s[k] = "/") + 1, Len(s)))
    ELSE s

\* pathParts[len(pathParts)-1] of strings.Split(strings.Trim(path, `"`), "/")
PackageNameOf(path) == LastSegment(TrimQuotes(path))

-----------------------------------------------------------------------------
(* SanitizeIdentifier *)

Pkg == <<"p","k","g">>

goKeywords ==
    { <<"b","r","e","a","k">>, <<"c","a","s","e">>, <<"c","h","a","n">>,
      <<"c","o","n","s","t">>, <<"c","o","n","t","i","n","u","e">>,
      <<"d","e","f","a","u","l","t">>, <<"d","e","f","e","r">>, <<"e","l","s","e">>,
      <<"f","a","l","l","t","h","r","o","u","g","h">>, <<"f","o","r">>,
      <<"f","u","n","c">>, <<"g","o">>, <<"g","o","t","o">>, <<"i","f">>,
      <<"i","m","p","o","r","t">>, <<"i","n","t","e","r","f","a","c","e">>,
      <<"m","a","p">>, <<"p","a","c","k","a","g","e">>, <<"r","a","n","g","e">>,
      <<"r","e","t","u","r","n">>, <<"s","e","l","e","c","t">>,
      <<"s","t","r","u","c","t">>, <<"s","w","i","t","c","h">>, <<"t","y","p","e">>,
      <<"v","a","r">> }

\* A variant that looks at the first character only.
SanitizeIdentifier_FirstCharOnly(name) ==
    IF name = <<>> \/ name = <<"_">> \/ name = <<".">> THEN Pkg
    ELSE IF name \in goKeywords THEN name \o Pkg
    ELSE IF name[1] \in Lower \cup Upper \cup {"_"} THEN name
    ELSE Pkg

SanitizeIdentifier(name) ==
    IF name = <<>> \/ name = <<"_">> \/ name = <<".">> THEN Pkg
    ELSE IF name \in goKeywords THEN name \o Pkg
    ELSE IF /\ Len(name) > 0
            /\ name[1] \in Lower \cup Upper \cup {"_"}
            /\ \A k \in 2..Len(name) : name[k] \in Lower \cup Upper \cup Digit \cup {"_"}
         THEN name
    ELSE Pkg

\* A call of SanitizeIdentifier on sanitizeArg.
Sanitize ==
    /\ pc = "sanitize"
    /\ sanitizeRet' = SanitizeIdentifier(sanitizeArg)
    /\ pc' = "sanitized"
    /\ UNCHANGED <<sanitizeArg, input, fileInfos, usedIdentifiers, pathToImport, pathToAlias,
                   aliasToPath, packageNameToAlias, ii, imports, allDecls, seenDecls,
                   firstTable, calls, packageVars, extensionVars, aliasVars, detectorVars>>

-----------------------------------------------------------------------------
(* GenerateUniqueAlias *)

\* Go's m[k] on a map[string]string: the zero value "" for a missing key.
MapGet(m, k) == IF k \in DOMAIN m THEN m[k] ELSE <<>>

\* The cap of the numbered strategy: "if counter > 1000".
MaxCounter == 1000

\* !usedIdentifiers[candidate] && aliasToPath[candidate] == ""
\* A variant that looks at the aliases given so far only.
IsFree_IgnoresIdentifiers(candidate, used, a2p) == MapGet(a2p, candidate) = <<>>

IsFree(candidate, used, a2p) == candidate \notin used /\ MapGet(a2p, candidate) = <<>>

\* fmt.Sprintf("pkg%d", len(aliasToPath)+1)
FallbackAlias(a2p) == Pkg \o Itoa(Cardinality(DOMAIN a2p) + 1)

\* fmt.Sprintf("%spkg%d", baseName, counter)
NumberedCandidate(baseName, counter) == baseName \o Pkg \o Itoa(counter)

\* Strategy 2: the for loop tries counter = 2, 3, ..., MaxCounter in turn and
\* returns the first free candidate; when counter passes MaxCounter it returns
\* the fallback.  (The loop is stated by its result: the least free counter.)
NumberedAlias(baseName, used, a2p) ==
    IF \E n \in 2..MaxCounter : IsFree(NumberedCandidate(baseName, n), used, a2p)
    THEN NumberedCandidate(baseName,
             CHOOSE n \in 2..MaxCounter :
                /\ IsFree(NumberedCandidate(baseName, n), used, a2p)
                /\ \A m \in 2..(n - 1) : ~IsFree(NumberedCandidate(baseName, m), used, a2p))
    ELSE FallbackAlias(a2p)

\* A variant without the "pkg" suffix strategy: numbered candidates at once.
GenerateUniqueAlias_NoPkgSuffix(baseName0, used, a2p) ==
    NumberedAlias(SanitizeIdentifier(baseName0), used, a2p)

GenerateUniqueAlias(baseName0, used, a2p) ==
    LET sanitizedBase == SanitizeIdentifier(baseName0)
        baseName == sanitizedBase
    IN IF sanitizedBase # baseName0 /\ IsFree(baseName, used, a2p) THEN baseName
       ELSE IF IsFree(baseName \o Pkg, used, a2p) THEN baseName \o Pkg
       ELSE NumberedAlias(baseName, used, a2p)


\* GenerateUniqueAlias step by step, on aliasArg, usedIdentifiers and
\* aliasToPath.

\* A variant that tries the base alone whether or not sanitizing changed it.
TriesBaseAlone_Always(original, sanitizedBase) == TRUE

\* if sanitizedBase != baseName
TriesBaseAlone(original, sanitizedBase) == sanitizedBase # original

\* sanitizedBase := fm.SanitizeIdentifier(baseName), and the comparison.
GenSanitize ==
    /\ pc = "generateAlias"
    /\ genBaseName' = SanitizeIdentifier(aliasArg)
    /\ pc' = IF TriesBaseAlone(aliasArg, SanitizeIdentifier(aliasArg))
             THEN "tryBase" ELSE "tryPkg"
    /\ UNCHANGED <<aliasArg, genCounter, genAlias>>
    /\ UNCHANGED <<input, fileInfos, usedIdentifiers, pathToImport, pathToAlias,
                   aliasToPath, packageNameToAlias, ii, imports, allDecls, seenDecls,
                   firstTable, calls>>
    /\ UNCHANGED <<packageVars, sanitizeVars, extensionVars, detectorVars>>

\* The sanitized base is free: return baseName.
GenReturnBase ==
    /\ pc = "tryBase"
    /\ IsFree(genBaseName, usedIdentifiers, aliasToPath)
    /\ genAlias' = genBaseName
    /\ pc' = "generated"
    /\ UNCHANGED <<aliasArg, genBaseName, genCounter>>
    /\ UNCHANGED <<input, fileInfos, usedIdentifiers, pathToImport, pathToAlias,
                   aliasToPath, packageNameToAlias, ii, imports, allDecls, seenDecls,
                   firstTable, calls>>
    /\ UNCHANGED <<packageVars, sanitizeVars, extensionVars, detectorVars>>

GenBaseTaken ==
    /\ pc = "tryBase"
    /\ ~IsFree(genBaseName, usedIdentifiers, aliasToPath)
    /\ pc' = "tryPkg"
    /\ UNCHANGED aliasVars
    /\ UNCHANGED <<input, fileInfos, usedIdentifiers, pathToImport, pathToAlias,
                   aliasToPath, packageNameToAlias, ii, imports, allDecls, seenDecls,
                   firstTable, calls>>
    /\ UNCHANGED <<packageVars, sanitizeVars, extensionVars, detectorVars>>

\* Strategy 1: baseName + "pkg" is free.
GenReturnPkg ==
    /\ pc = "tryPkg"
    /\ IsFree(genBaseName \o Pkg, usedIdentifiers, aliasToPath)
    /\ genAlias' = genBaseName \o Pkg
    /\ pc' = "generated"
    /\ UNCHANGED <<aliasArg, genBaseName, genCounter>>
    /\ UNCHANGED <<input, fileInfos, usedIdentifiers, pathToImport, pathToAlias,
                   aliasToPath, packageNameToAlias, ii, imports, allDecls, seenDecls,
                   firstTable, calls>>
    /\ UNCHANGED <<packageVars, sanitizeVars, extensionVars, detectorVars>>

\* counter := 2
GenPkgTaken ==
    /\ pc = "tryPkg"
    /\ ~IsFree(genBaseName \o Pkg, usedIdentifiers, aliasToPath)
    /\ genCounter' = 2
    /\ pc' = "loop"
    /\ UNCHANGED <<aliasArg, genBaseName, genAlias>>
    /\ UNCHANGED <<input, fileInfos, usedIdentifiers, pathToImport, pathToAlias,
                   aliasToPath, packageNameToAlias, ii, imports, allDecls, seenDecls,
                   firstTable, calls>>
    /\ UNCHANGED <<packageVars, sanitizeVars, extensionVars, detectorVars>>

\* Strategy 2: the candidate of the counter is free.
GenReturnNumbered ==
    /\ pc = "loop"
    /\ IsFree(NumberedCandidate(genBaseName, genCounter), usedIdentifiers, aliasToPath)
    /\ genAlias' = NumberedCandidate(genBaseName, genCounter)
    /\ pc' = "generated"
    /\ UNCHANGED <<aliasArg, genBaseName, genCounter>>
    /\ UNCHANGED <<input, fileInfos, usedIdentifiers, pathToImport, pathToAlias,
                   aliasToPath, packageNameToAlias, ii, imports, allDecls, seenDecls,
                   firstTable, calls>>
    /\ UNCHANGED <<packageVars, sanitizeVars, extensionVars, detectorVars>>

\* counter++, and the counter is within the cap.
GenNextCounter ==
    /\ pc = "loop"
    /\ ~IsFree(NumberedCandidate(genBaseName, genCounter), usedIdentifiers, aliasToPath)
    /\ genCounter + 1 <= MaxCounter
    /\ genCounter' = genCounter + 1
    /\ UNCHANGED <<aliasArg, genBaseName, genAlias, pc>>
    /\ UNCHANGED <<input, fileInfos, usedIdentifiers, pathToImport, pathToAlias,
                   aliasToPath, packageNameToAlias, ii, imports, allDecls, seenDecls,
                   firstTable, calls>>
    /\ UNCHANGED <<packageVars, sanitizeVars, extensionVars, detectorVars>>

\* counter++, and counter > 1000: the fallback.
GenFallback ==
    /\ pc = "loop"
    /\ ~IsFree(NumberedCandidate(genBaseName, genCounter), usedIdentifiers, aliasToPath)
    /\ genCounter + 1 > MaxCounter
    /\ genCounter' = genCounter + 1
    /\ genAlias' = FallbackAlias(aliasToPath)
    /\ pc' = "generated"
    /\ UNCHANGED <<aliasArg, genBaseName>>
    /\ UNCHANGED <<input, fileInfos, usedIdentifiers, pathToImport, pathToAlias,
                   aliasToPath, packageNameToAlias, ii, imports, allDecls, seenDecls,
                   firstTable, calls>>
    /\ UNCHANGED <<packageVars, sanitizeVars, extensionVars, detectorVars>>

-----------------------------------------------------------------------------
(* The syntax trees: go/ast as far as the merger reads or writes it *)

\* A nil *ast.Ident (ImportSpec.Name of an import written without a name).
NoName == <<>>

\* A nil FuncDecl.Recv, and the absence of a receiver type.
NoRecv == [op |-> "none"]

\* The standard aliases of ResolveImportConflicts, keyed by ImportSpec.Path.Value.
standardAliases ==
    ( <<"\"","d","a","t","a","b","a","s","e","/","s","q","l","\"">>
          :> <<"s","t","d","s","q","l">> ) @@
    ( <<"\"","e","n","t","g","o",".","i","o","/","e","n","t","/",
        "d","i","a","l","e","c","t","/","s","q","l","\"">>
          :> <<"e","n","t","s","q","l">> ) @@
    ( <<"\"","l","o","g","\"">> :> <<"s","t","d","l","o","g">> ) @@
    ( <<"\"","e","n","t","g","o",".","i","o","/","e","n","t","\"">>
          :> <<"e","n","t","p","k","g">> )

\* m[k] = v on a Go map.
MapPut(m, k, v) == [x \in (DOMAIN m) \cup {k} |-> IF x = k THEN v ELSE m[x]]

\* The binders ast.Inspect reaches in CollectAllIdentifiers, by the case that
\* collects them: receiver, parameter and named result of a FuncDecl, the
\* identifiers on the left of an AssignStmt, the key and value of a RangeStmt,
\* the binding of a TypeSwitchStmt, the fields of a StructType, the members of
\* an InterfaceType, and the names of var, const and type GenDecls nested in
\* a body.
CollectedBinders ==
    {"recv", "param", "result", "assign", "range", "typeswitch", "field",
     "ifacemember", "localvar", "localconst", "localtype"}

\* Binders of Go no case of CollectAllIdentifiers matches: the parameters and
\* results of a function literal or of a function type, and labels.
OtherBinders == {"funclit", "functype", "label"}

\* The names one declaration contributes to usedIdentifiers.
DeclIdentifiers(decl) ==
    (IF decl.kind \in {"var", "const", "type", "func"}
     THEN {decl.names[k] : k \in 1..Len(decl.names)} ELSE {})
    \cup {b.name : b \in {c \in decl.binds : c.cat \in CollectedBinders}}

\* CollectAllIdentifiers
CollectAllIdentifiers(units) ==
    UNION { UNION {DeclIdentifiers(units[u].decls[d]) : d \in 1..Len(units[u].decls)}
            \cup {units[u].imports[k].name :
                     k \in {j \in 1..Len(units[u].imports) : units[u].imports[j].name # NoName}}
          : u \in 1..Len(units) }

\* getTypeName
RECURSIVE getTypeName(_)
getTypeName(expr) ==
    CASE expr.op = "ident" -> expr.name
      [] expr.op = "star"  -> getTypeName(expr.x)
      [] expr.op = "sel" /\ expr.x.op = "ident" -> expr.x.name \o <<".">> \o expr.sel
      [] OTHER -> <<"u","n","k","n","o","w","n">>

\* strings.Join(signatures, ",") over the specs' names with the given prefix
RECURSIVE JoinSignatures(_, _)
JoinSignatures(prefix, names) ==
    IF Len(names) = 1 THEN prefix \o names[1]
    ELSE prefix \o names[1] \o <<",">> \o JoinSignatures(prefix, Tail(names))

\* The address %p prints for the declaration node at position d of unit u:
\* distinct nodes have distinct addresses.
NodeAddress(u, d) == <<"0","x">> \o Itoa(u) \o <<"0">> \o Itoa(d)

\* generateDeclarationSignature, of the declaration at position d of unit u
generateDeclarationSignature(decl, u, d) ==
    IF decl.kind \in {"type", "var", "const"} /\ Len(decl.names) > 0
    THEN JoinSignatures(
            CASE decl.kind = "type"  -> <<"t","y","p","e",":">>
              [] decl.kind = "var"   -> <<"v","a","r",":">>
              [] decl.kind = "const" -> <<"c","o","n","s","t",":">>,
            decl.names)
    ELSE IF decl.kind = "func" /\ decl.recv # NoRecv
    THEN <<"m","e","t","h","o","d",":">> \o getTypeName(decl.recv) \o <<".">> \o decl.names[1]
    ELSE IF decl.kind = "func"
    THEN <<"f","u","n","c",":">> \o decl.names[1]
    ELSE <<"u","n","k","n","o","w","n",":">> \o NodeAddress(u, d)

\* fileImportMappings[i] of MergeASTs: import path -> alias as written in the unit
\* A variant that takes every path's last segment, whatever the unit wrote.
FileImportMapping_PackageNames(unit) ==
    [p \in {unit.imports[k].path : k \in 1..Len(unit.imports)} |-> PackageNameOf(p)]

FileImportMapping(unit) ==
    [p \in {unit.imports[k].path : k \in 1..Len(unit.imports)} |->
        LET imp == unit.imports[CHOOSE k \in 1..Len(unit.imports) :
                                   /\ unit.imports[k].path = p
                                   /\ \A j \in (k + 1)..Len(unit.imports) :
                                          unit.imports[j].path # p]
        IN IF imp.name # NoName THEN imp.name ELSE PackageNameOf(p)]

\* The orders in which a range over a Go map may visit its keys.
KeyOrders(m) ==
    {o \in [1..Cardinality(DOMAIN m) -> DOMAIN m] :
        \A a, b \in 1..Cardinality(DOMAIN m) : a # b => o[a] # o[b]}

\* updateIdentifiersForDeclaration, first loop: aliasMap, the keys of
\* originalImports visited in the given order
RECURSIVE BuildAliasMap(_, _, _)
BuildAliasMap(order, originalImports, finalImports) ==
    IF order = <<>> THEN <<>>
    ELSE LET n == Len(order)
             importPath == order[n]
             before == BuildAliasMap(SubSeq(order, 1, n - 1), originalImports, finalImports)
             originalAlias == originalImports[importPath]
             finalAlias == IF finalImports[importPath].name # NoName
                           THEN finalImports[importPath].name
                           ELSE PackageNameOf(importPath)
         IN IF importPath \in DOMAIN finalImports /\ originalAlias # finalAlias
            THEN MapPut(before, originalAlias, finalAlias)
            ELSE before

\* The ast.Inspect of updateIdentifiersForDeclaration on a receiver type.
RECURSIVE RewriteExpr(_, _)
RewriteExpr(expr, aliasMap) ==
    CASE expr.op = "ident" -> expr
      [] expr.op = "none" -> expr
      [] expr.op = "sel" ->
            [expr EXCEPT !.x = IF expr.x.op = "ident" /\ expr.x.name \in DOMAIN aliasMap
                               THEN [expr.x EXCEPT !.name = aliasMap[expr.x.name]]
                               ELSE RewriteExpr(expr.x, aliasMap)]
      [] OTHER -> [expr EXCEPT !.x = RewriteExpr(expr.x, aliasMap)]

\* updateIdentifiersForDeclaration, second part: every SelectorExpr whose X is
\* an identifier found in aliasMap gets the new name, in place.
RewriteDecl(decl, aliasMap) ==
    IF Cardinality(DOMAIN aliasMap) > 0
    THEN [decl EXCEPT
            !.sel = [k \in 1..Len(decl.sel) |->
                        IF decl.sel[k] \in DOMAIN aliasMap
                        THEN aliasMap[decl.sel[k]] ELSE decl.sel[k]],
            !.recv = RewriteExpr(decl.recv, aliasMap)]
    ELSE decl

\* A variant that sorts in descending order.
RECURSIVE SortStrings_Descending(_)
SortStrings_Descending(S) ==
    IF S = {} THEN <<>>
    ELSE LET greatest == CHOOSE x \in S : \A y \in S \ {x} : StrLess(y, x)
         IN <<greatest>> \o SortStrings_Descending(S \ {greatest})

\* sort.Strings over the keys collected from a map
RECURSIVE SortStrings(_)
SortStrings(S) ==
    IF S = {} THEN <<>>
    ELSE LET least == CHOOSE x \in S : \A y \in S \ {x} : StrLess(x, y)
         IN <<least>> \o SortStrings(S \ {least})

-----------------------------------------------------------------------------
(* ResolveImportConflicts, one import at a time *)

\* The imports in the order the two nested loops visit them: units in order,
\* each unit's imports in order.
RECURSIVE AllImports(_)
AllImports(units) ==
    IF units = <<>> THEN <<>>
    ELSE units[1].imports \o AllImports(Tail(units))

\* A variant that checks an explicit alias against the identifiers as well.
ResolvedAlias_ExplicitChecked(imp, used, a2p) ==
    LET preferredAlias ==
            IF imp.name # NoName THEN imp.name
            ELSE IF imp.path \in DOMAIN standardAliases THEN standardAliases[imp.path]
            ELSE PackageNameOf(imp.path)
    IN IF preferredAlias \in used \/ MapGet(a2p, preferredAlias) # <<>>
       THEN GenerateUniqueAlias(preferredAlias, used, a2p)
       ELSE preferredAlias

\* The alias a newly seen import is given (the body of the inner loop up to
\* the conflict check).
\* A variant in which the standard-alias table comes before the explicit
\* alias.
ResolvedAlias_TableFirst(imp, used, a2p) ==
    LET path == imp.path
        inTable == path \in DOMAIN standardAliases
        preferredAlias ==
            IF inTable THEN standardAliases[path]
            ELSE IF imp.name # NoName THEN imp.name
            ELSE PackageNameOf(path)
    IN IF (imp.name = NoName \/ inTable)
          /\ (preferredAlias \in used \/ MapGet(a2p, preferredAlias) # <<>>)
       THEN GenerateUniqueAlias(PackageNameOf(path), used, a2p)
       ELSE IF imp.name # NoName /\ MapGet(a2p, preferredAlias) # <<>>
                                /\ MapGet(a2p, preferredAlias) # path
       THEN GenerateUniqueAlias(preferredAlias, used, a2p)
       ELSE preferredAlias

ResolvedAlias(imp, used, a2p) ==
    LET path == imp.path
        hasExplicitAlias == imp.name # NoName
        preferredAlias ==
            IF hasExplicitAlias THEN imp.name
            ELSE IF path \in DOMAIN standardAliases THEN standardAliases[path]
            ELSE PackageNameOf(path)
        packageName == PackageNameOf(path)
    IN IF ~hasExplicitAlias /\ (preferredAlias \in used \/ MapGet(a2p, preferredAlias) # <<>>)
       THEN GenerateUniqueAlias(packageName, used, a2p)
       ELSE IF hasExplicitAlias /\ MapGet(a2p, preferredAlias) # <<>>
                                /\ MapGet(a2p, preferredAlias) # path
       THEN GenerateUniqueAlias(preferredAlias, used, a2p)
       ELSE preferredAlias

\* The ImportSpec written to pathToImport: it carries a name unless the alias
\* is the package name of an unaliased import outside the standard table.
ResolvedImport(imp, preferredAlias) ==
    [path |-> imp.path,
     name |-> IF \/ preferredAlias # PackageNameOf(imp.path)
                 \/ MapGet(standardAliases, imp.path) # <<>>
                 \/ imp.name # NoName
              THEN preferredAlias ELSE NoName]

\* The two nested loops of ResolveImportConflicts as a whole, over the imports
\* in visiting order: st holds pathToImport (p2i) and aliasToPath (a2p).
RECURSIVE ResolveFrom(_, _, _)
ResolveFrom(imps, used, st) ==
    IF imps = <<>> THEN st
    ELSE LET imp == Head(imps)
             preferredAlias == ResolvedAlias(imp, used, st.a2p)
         IN IF imp.path \in DOMAIN st.p2i
            THEN ResolveFrom(Tail(imps), used, st)
            ELSE ResolveFrom(Tail(imps), used,
                   [p2i |-> MapPut(st.p2i, imp.path, ResolvedImport(imp, preferredAlias)),
                    a2p |-> MapPut(st.a2p, preferredAlias, imp.path)])

\* ResolveImportConflicts(units).PathToImport
ResolveTable(units) ==
    ResolveFrom(AllImports(units), CollectAllIdentifiers(units),
                [p2i |-> <<>>, a2p |-> <<>>]).p2i

\* A variant in which a call starts from the aliases the previous call left.
NewAliasToPath_Kept(previous) == previous

\* The maps a call of ResolveImportConflicts starts from.
NewAliasToPath(previous) == <<>>

\* A variant that accepts every list of package names.
PackageNameMismatch_Never(units) == FALSE

\* Some unit's package name is not the first unit's.
PackageNameMismatch(units) ==
    \E u \in 1..Len(units) : units[u].name # units[1].name

\* MergeASTs: the empty list and a package name that differs from the first
\* unit's are errors.
MergeError ==
    /\ pc = "start"
    /\ \/ Len(fileInfos) = 0
       \/ PackageNameMismatch(fileInfos)
    /\ pc' = "error"
    /\ UNCHANGED <<input, fileInfos, usedIdentifiers, pathToImport, pathToAlias,
                   aliasToPath, packageNameToAlias, ii, imports, allDecls, seenDecls,
                   firstTable, calls>>
    /\ UNCHANGED <<packageVars, sanitizeVars, extensionVars, aliasVars, detectorVars>>

\* MergeASTs up to the first statements of ResolveImportConflicts, which
\* makes its maps and collects the identifiers.
StartMerge ==
    /\ pc = "start"
    /\ Len(fileInfos) # 0
    /\ ~PackageNameMismatch(fileInfos)
    /\ pc' = "resolve"
    /\ usedIdentifiers' = CollectAllIdentifiers(fileInfos)
    /\ pathToImport' = <<>>
    /\ pathToAlias' = <<>>
    /\ aliasToPath' = NewAliasToPath(aliasToPath)
    /\ packageNameToAlias' = <<>>
    /\ ii' = 1
    /\ calls' = 1
    /\ UNCHANGED <<input, fileInfos, imports, allDecls, seenDecls, firstTable>>
    /\ UNCHANGED <<packageVars, sanitizeVars, extensionVars, aliasVars, detectorVars>>

\* An import whose path is already in pathToImport is skipped.
ResolveSeen ==
    /\ pc = "resolve"
    /\ ii <= Len(AllImports(fileInfos))
    /\ AllImports(fileInfos)[ii].path \in DOMAIN pathToImport
    /\ ii' = ii + 1
    /\ UNCHANGED <<imports, input, fileInfos, pc, usedIdentifiers, pathToImport, pathToAlias,
                   aliasToPath, packageNameToAlias, allDecls, seenDecls, firstTable,
                   calls>>
    /\ UNCHANGED <<packageVars, sanitizeVars, extensionVars, aliasVars, detectorVars>>

\* An import with a new path is given its alias and recorded.
ResolveNew ==
    /\ pc = "resolve"
    /\ ii <= Len(AllImports(fileInfos))
    /\ LET imp == AllImports(fileInfos)[ii]
           preferredAlias == ResolvedAlias(imp, usedIdentifiers, aliasToPath)
       IN /\ imp.path \notin DOMAIN pathToImport
          /\ packageNameToAlias' =
                 MapPut(packageNameToAlias, PackageNameOf(imp.path), preferredAlias)
          /\ pathToImport' = MapPut(pathToImport, imp.path, ResolvedImport(imp, preferredAlias))
          /\ pathToAlias' = MapPut(pathToAlias, imp.path, preferredAlias)
          /\ aliasToPath' = MapPut(aliasToPath, preferredAlias, imp.path)
    /\ ii' = ii + 1
    /\ UNCHANGED <<imports, input, fileInfos, pc, usedIdentifiers, allDecls, seenDecls,
                   firstTable, calls>>
    /\ UNCHANGED <<packageVars, sanitizeVars, extensionVars, aliasVars, detectorVars>>

-----------------------------------------------------------------------------
(* MergeASTs after ResolveImportConflicts *)

\* The resolved specs, sorted by path.
ImportBlock(p2i) ==
    LET importPaths == SortStrings(DOMAIN p2i)
    IN [k \in 1..Len(importPaths) |-> p2i[importPaths[k]]]

\* The first call of ResolveImportConflicts returns into MergeASTs, which
\* sorts the paths and starts allDecls with the import block, if there is one.
BuildImports ==
    /\ pc = "resolve"
    /\ calls = 1
    /\ ii > Len(AllImports(fileInfos))
    /\ imports' = ImportBlock(pathToImport)
    /\ allDecls' = IF Len(ImportBlock(pathToImport)) > 0 THEN << <<0, 0>> >> ELSE <<>>
    /\ seenDecls' = {}
    /\ ii' = 1
    /\ pc' = "merge"
    /\ UNCHANGED <<input, fileInfos, usedIdentifiers, pathToImport, pathToAlias,
                   aliasToPath, packageNameToAlias, firstTable, calls>>
    /\ UNCHANGED <<packageVars, sanitizeVars, extensionVars, aliasVars, detectorVars>>

\* The declarations in the order the two nested loops visit them, each as
\* <<unit, position>>.
RECURSIVE DeclPositionsFrom(_, _)
DeclPositionsFrom(units, u) ==
    IF u > Len(units) THEN <<>>
    ELSE [d \in 1..Len(units[u].decls) |-> <<u, d>>] \o DeclPositionsFrom(units, u + 1)

DeclPositions(units) == DeclPositionsFrom(units, 1)

\* An import declaration of a unit is skipped.
MergeSkipImport ==
    /\ pc = "merge"
    /\ ii <= Len(DeclPositions(fileInfos))
    /\ LET pos == DeclPositions(fileInfos)[ii]
       IN fileInfos[pos[1]].decls[pos[2]].kind = "import"
    /\ ii' = ii + 1
    /\ UNCHANGED <<imports, input, fileInfos, pc, usedIdentifiers, pathToImport, pathToAlias,
                   aliasToPath, packageNameToAlias, allDecls, seenDecls, firstTable,
                   calls>>
    /\ UNCHANGED <<packageVars, sanitizeVars, extensionVars, aliasVars, detectorVars>>

\* A declaration whose signature was seen is skipped.
MergeSkipDuplicate ==
    /\ pc = "merge"
    /\ ii <= Len(DeclPositions(fileInfos))
    /\ LET pos == DeclPositions(fileInfos)[ii]
           decl == fileInfos[pos[1]].decls[pos[2]]
       IN /\ decl.kind # "import"
          /\ generateDeclarationSignature(decl, pos[1], pos[2]) \in seenDecls
    /\ ii' = ii + 1
    /\ UNCHANGED <<imports, input, fileInfos, pc, usedIdentifiers, pathToImport, pathToAlias,
                   aliasToPath, packageNameToAlias, allDecls, seenDecls, firstTable,
                   calls>>
    /\ UNCHANGED <<packageVars, sanitizeVars, extensionVars, aliasVars, detectorVars>>

\* A variant that puts a kept declaration in front.
AppendDecl_Prepend(decls, pos) == <<pos>> \o decls

\* The position allDecls gets for a kept declaration.
AppendDecl(decls, pos) == Append(decls, pos)

\* A declaration with a new signature is rewritten in place, when its unit's
\* import mapping is not empty, and appended.  The range over the unit's
\* mapping visits its keys in any order.
MergeKeep ==
    /\ pc = "merge"
    /\ ii <= Len(DeclPositions(fileInfos))
    /\ LET pos == DeclPositions(fileInfos)[ii]
           decl == fileInfos[pos[1]].decls[pos[2]]
           declSignature == generateDeclarationSignature(decl, pos[1], pos[2])
           originalImports == FileImportMapping(fileInfos[pos[1]])
       IN /\ decl.kind # "import"
          /\ declSignature \notin seenDecls
          /\ seenDecls' = seenDecls \cup {declSignature}
          /\ \E order \in KeyOrders(originalImports) :
                fileInfos' =
                    IF Cardinality(DOMAIN originalImports) > 0
                    THEN [fileInfos EXCEPT ![pos[1]].decls[pos[2]] =
                            RewriteDecl(decl, BuildAliasMap(order, originalImports, pathToImport))]
                    ELSE fileInfos
          /\ allDecls' = AppendDecl(allDecls, pos)
    /\ ii' = ii + 1
    /\ UNCHANGED <<imports, input, pc, usedIdentifiers, pathToImport, pathToAlias,
                   aliasToPath, packageNameToAlias, firstTable, calls>>
    /\ UNCHANGED <<packageVars, sanitizeVars, extensionVars, aliasVars, detectorVars>>

\* merged.Decls = allDecls; return merged, nil
FinishMerge ==
    /\ pc = "merge"
    /\ ii > Len(DeclPositions(fileInfos))
    /\ pc' = "done"
    /\ UNCHANGED <<imports, input, fileInfos, usedIdentifiers, pathToImport, pathToAlias,
                   aliasToPath, packageNameToAlias, ii, allDecls, seenDecls,
                   firstTable, calls>>
    /\ UNCHANGED <<packageVars, sanitizeVars, extensionVars, aliasVars, detectorVars>>

\* A caller calls ResolveImportConflicts on the same list of units again.
ResolveAgain ==
    /\ pc = "done"
    /\ calls = 1
    /\ calls' = 2
    /\ firstTable' = pathToImport
    /\ usedIdentifiers' = CollectAllIdentifiers(fileInfos)
    /\ pathToImport' = <<>>
    /\ pathToAlias' = <<>>
    /\ aliasToPath' = NewAliasToPath(aliasToPath)
    /\ packageNameToAlias' = <<>>
    /\ ii' = 1
    /\ pc' = "resolve"
    /\ UNCHANGED <<imports, input, fileInfos, allDecls, seenDecls>>
    /\ UNCHANGED <<packageVars, sanitizeVars, extensionVars, aliasVars, detectorVars>>

\* The second call returns its mapping.
ReturnAgain ==
    /\ pc = "resolve"
    /\ calls = 2
    /\ ii > Len(AllImports(fileInfos))
    /\ pc' = "resolved"
    /\ UNCHANGED <<imports, input, fileInfos, usedIdentifiers, pathToImport, pathToAlias,
                   aliasToPath, packageNameToAlias, ii, allDecls, seenDecls,
                   firstTable, calls>>
    /\ UNCHANGED <<packageVars, sanitizeVars, extensionVars, aliasVars, detectorVars>>

\* The merged unit: its package name, that of the first unit.
MergedName == fileInfos[1].name

\* The merged unit: its declarations, each read through its node (the import
\* block is the one node MergeASTs creates).
MergedDecl(pos) ==
    IF pos = <<0, 0>>
    THEN [kind |-> "import", names |-> <<>>, recv |-> NoRecv, binds |-> {},
          sel |-> <<>>, specs |-> imports]
    ELSE fileInfos[pos[1]].decls[pos[2]]

-----------------------------------------------------------------------------
(* squishFiles and MergePackage *)

nGen == <<"g","e","n">>
GoSuffix == <<".","g","o">>

\* filepath.Join of a directory and a file name in which nothing is to clean.
Join(dir, fileName) == dir \o <<"/">> \o fileName

\* fm.config.MaxFileSize, as NewFileMerger is given it.
MaxFileSize == 2

\* A variant that never refuses a file for its size.
Oversize_Never(size) == FALSE

\* stat.Size() > fm.config.MaxFileSize
Oversize(size) == size > MaxFileSize

\* isRootPackage := pkg.EntityName == "gen"
IsRootPackage(pkg) == pkg.EntityName = nGen

\* A variant that accepts any number of files.
UnitCountOK_Any(pkg, n) == TRUE

\* The two checks of len(fileInfos): exactly 2 files in an entity package, at
\* least 2 in the root package.
UnitCountOK(pkg, n) == IF IsRootPackage(pkg) THEN n >= 2 ELSE n = 2

\* A variant that writes and removes in a dry run too.
WritesFiles_Always(dr) == TRUE

\* "if fm.dryRun { ... return nil }": only without dryRun does MergePackage go
\* on to write and remove.
WritesFiles(dr) == ~dr

\* A variant that takes no file for the output file.
IsOutputPath_Never(filePath, outputPath) == FALSE

\* "if filePath == outputPath { continue }"
IsOutputPath(filePath, outputPath) == filePath = outputPath

\* outputPath of MergePackage
OutputPath(pkg) ==
    IF IsRootPackage(pkg) THEN Join(pkg.Path, nGen \o GoSuffix)
    ELSE Join(pkg.Path, pkg.EntityName \o GoSuffix)

\* The package squishFiles is at, and the path of the file a loop is at.
CurrentPackage == packages[pi]

CurrentFilePath == Join(CurrentPackage.Path, CurrentPackage.Files[fx])

\* What os.Stat and parser.ParseFile find at that path.
CurrentFile == CurrentPackage.Content[fx]

\* A variant in which a failed package ends the loop.
AfterFailure_Abort(i, n) == n + 1

\* The package squishFiles goes to after MergePackage returned an error:
\* "continue".
AfterFailure(i, n) == i + 1

\* MergePackage returns an error, here named by the step that failed;
\* squishFiles logs it and goes on.
ReturnError(step) ==
    /\ results' = Append(results, step)
    /\ pi' = AfterFailure(pi, Len(packages))
    /\ pc' = "squish"

\* MergePackage returns nil; squishFiles goes on.
ReturnNil ==
    /\ results' = Append(results, "nil")
    /\ pi' = pi + 1
    /\ pc' = "squish"

\* FindSquishablePackages fails: squishFiles returns the error.
DetectFails ==
    /\ pc = "detect"
    /\ returned' = "error"
    /\ pc' = "returned"
    /\ UNCHANGED <<input, fileInfos, usedIdentifiers, pathToImport, pathToAlias,
                   aliasToPath, packageNameToAlias, ii, imports, allDecls, seenDecls,
                   firstTable, calls>>
    /\ UNCHANGED <<packages, dryRun, pi, fx, disk, parsedPaths, written, removed, results>>
    /\ UNCHANGED <<sanitizeVars, extensionVars, aliasVars, detectorVars>>

\* FindSquishablePackages returns the packages.
Detect ==
    /\ pc = "detect"
    /\ pc' = "squish"
    /\ UNCHANGED <<input, fileInfos, usedIdentifiers, pathToImport, pathToAlias,
                   aliasToPath, packageNameToAlias, ii, imports, allDecls, seenDecls,
                   firstTable, calls>>
    /\ UNCHANGED <<packageVars, sanitizeVars, extensionVars, aliasVars, detectorVars>>

\* squishFiles returns nil: there was no package, or the loop is over.
SquishReturn ==
    /\ pc = "squish"
    /\ pi > Len(packages)
    /\ returned' = "nil"
    /\ pc' = "returned"
    /\ UNCHANGED <<input, fileInfos, usedIdentifiers, pathToImport, pathToAlias,
                   aliasToPath, packageNameToAlias, ii, imports, allDecls, seenDecls,
                   firstTable, calls>>
    /\ UNCHANGED <<packages, dryRun, pi, fx, disk, parsedPaths, written, removed, results>>
    /\ UNCHANGED <<sanitizeVars, extensionVars, aliasVars, detectorVars>>

\* squishFiles calls MergePackage on the next package, which calls parseFiles.
StartPackage ==
    /\ pc = "squish"
    /\ pi <= Len(packages)
    /\ pc' = "parse"
    /\ fx' = 1
    /\ fileInfos' = <<>>
    /\ usedIdentifiers' = {}
    /\ pathToImport' = <<>>
    /\ pathToAlias' = <<>>
    /\ aliasToPath' = <<>>
    /\ packageNameToAlias' = <<>>
    /\ ii' = 1
    /\ imports' = <<>>
    /\ allDecls' = <<>>
    /\ seenDecls' = {}
    /\ calls' = 0
    /\ UNCHANGED <<input, firstTable>>
    /\ UNCHANGED <<packages, dryRun, pi, disk, parsedPaths, written, removed, results,
                   returned>>
    /\ UNCHANGED <<sanitizeVars, extensionVars, aliasVars, detectorVars>>

\* What MergeASTs holds besides the units and its position.
mergeLocals == <<input, usedIdentifiers, pathToImport, pathToAlias, aliasToPath,
                 packageNameToAlias, ii, imports, allDecls, seenDecls, firstTable, calls>>

\* parseFiles: a file larger than the limit is an error, before it is parsed.
ParseOversize ==
    /\ pc = "parse"
    /\ fx <= Len(CurrentPackage.Files)
    /\ Oversize(CurrentFile.size)
    /\ ReturnError("parse error")
    /\ UNCHANGED <<mergeLocals, fileInfos, sanitizeVars, extensionVars, aliasVars, detectorVars>>
    /\ UNCHANGED <<packages, dryRun, fx, disk, parsedPaths, written, removed, returned>>

\* parseFiles: parser.ParseFile returns an error.
ParseFails ==
    /\ pc = "parse"
    /\ fx <= Len(CurrentPackage.Files)
    /\ ~Oversize(CurrentFile.size)
    /\ ~CurrentFile.parses
    /\ parsedPaths' = parsedPaths \cup {CurrentFilePath}
    /\ ReturnError("parse error")
    /\ UNCHANGED <<mergeLocals, fileInfos, sanitizeVars, extensionVars, aliasVars, detectorVars>>
    /\ UNCHANGED <<packages, dryRun, fx, disk, written, removed, returned>>

\* parseFiles: the file is parsed and its FileInfo appended.
ParseFile ==
    /\ pc = "parse"
    /\ fx <= Len(CurrentPackage.Files)
    /\ ~Oversize(CurrentFile.size)
    /\ CurrentFile.parses
    /\ parsedPaths' = parsedPaths \cup {CurrentFilePath}
    /\ fileInfos' = Append(fileInfos, CurrentFile.unit)
    /\ fx' = fx + 1
    /\ UNCHANGED <<mergeLocals, pc, sanitizeVars, extensionVars, aliasVars, detectorVars>>
    /\ UNCHANGED <<packages, dryRun, pi, disk, written, removed, results, returned>>

\* MergePackage: the number of parsed files is not what the kind of package
\* requires.
CountFails ==
    /\ pc = "parse"
    /\ fx > Len(CurrentPackage.Files)
    /\ ~UnitCountOK(CurrentPackage, Len(fileInfos))
    /\ ReturnError("count error")
    /\ UNCHANGED <<mergeLocals, fileInfos, sanitizeVars, extensionVars, aliasVars, detectorVars>>
    /\ UNCHANGED <<packages, dryRun, fx, disk, parsedPaths, written, removed, returned>>

\* MergePackage: the number is right, MergeASTs is called.
CountPasses ==
    /\ pc = "parse"
    /\ fx > Len(CurrentPackage.Files)
    /\ UnitCountOK(CurrentPackage, Len(fileInfos))
    /\ pc' = "start"
    /\ UNCHANGED <<mergeLocals, fileInfos, packageVars, sanitizeVars, extensionVars, aliasVars, detectorVars>>

\* MergePackage: MergeASTs returned an error.
MergeFails ==
    /\ pc = "error"
    /\ ReturnError("merge error")
    /\ UNCHANGED <<mergeLocals, fileInfos, sanitizeVars, extensionVars, aliasVars, detectorVars>>
    /\ UNCHANGED <<packages, dryRun, fx, disk, parsedPaths, written, removed, returned>>

\* MergePackage: with dryRun set it returns nil after MergeASTs.
DryRunReturn ==
    /\ pc = "done"
    /\ ~WritesFiles(dryRun)
    /\ ReturnNil
    /\ UNCHANGED <<mergeLocals, fileInfos, sanitizeVars, extensionVars, aliasVars, detectorVars>>
    /\ UNCHANGED <<packages, dryRun, fx, disk, parsedPaths, written, removed, returned>>

\* writeMergedFile: format.Node or os.WriteFile returns an error.
WriteFails ==
    /\ pc = "done"
    /\ WritesFiles(dryRun)
    /\ ReturnError("write error")
    /\ UNCHANGED <<mergeLocals, fileInfos, sanitizeVars, extensionVars, aliasVars, detectorVars>>
    /\ UNCHANGED <<packages, dryRun, fx, disk, parsedPaths, written, removed, returned>>

\* writeMergedFile writes the output file; removeOriginalFiles is called.
WriteFile ==
    /\ pc = "done"
    /\ WritesFiles(dryRun)
    /\ disk' = disk \cup {OutputPath(CurrentPackage)}
    /\ written' = Append(written, OutputPath(CurrentPackage))
    /\ fx' = 1
    /\ pc' = "remove"
    /\ UNCHANGED <<mergeLocals, fileInfos, sanitizeVars, extensionVars, aliasVars, detectorVars>>
    /\ UNCHANGED <<packages, dryRun, pi, parsedPaths, removed, results, returned>>

\* removeOriginalFiles: the file at the output path is left alone.
RemoveSkip ==
    /\ pc = "remove"
    /\ fx <= Len(CurrentPackage.Files)
    /\ IsOutputPath(CurrentFilePath, OutputPath(CurrentPackage))
    /\ fx' = fx + 1
    /\ UNCHANGED <<mergeLocals, fileInfos, pc, sanitizeVars, extensionVars, aliasVars, detectorVars>>
    /\ UNCHANGED <<packages, dryRun, pi, disk, parsedPaths, written, removed, results,
                   returned>>

\* removeOriginalFiles: os.Remove removes the file.
RemoveFile ==
    /\ pc = "remove"
    /\ fx <= Len(CurrentPackage.Files)
    /\ ~IsOutputPath(CurrentFilePath, OutputPath(CurrentPackage))
    /\ disk' = disk \ {CurrentFilePath}
    /\ removed' = Append(removed, CurrentFilePath)
    /\ fx' = fx + 1
    /\ UNCHANGED <<mergeLocals, fileInfos, pc, sanitizeVars, extensionVars, aliasVars, detectorVars>>
    /\ UNCHANGED <<packages, dryRun, pi, parsedPaths, written, results, returned>>

\* removeOriginalFiles: os.Remove returns an error; MergePackage logs a
\* warning and returns nil.
RemoveFails ==
    /\ pc = "remove"
    /\ fx <= Len(CurrentPackage.Files)
    /\ ~IsOutputPath(CurrentFilePath, OutputPath(CurrentPackage))
    /\ ReturnNil
    /\ UNCHANGED <<mergeLocals, fileInfos, sanitizeVars, extensionVars, aliasVars, detectorVars>>
    /\ UNCHANGED <<packages, dryRun, fx, disk, parsedPaths, written, removed, returned>>

\* removeOriginalFiles returns nil, and so does MergePackage.
RemoveDone ==
    /\ pc = "remove"
    /\ fx > Len(CurrentPackage.Files)
    /\ ReturnNil
    /\ UNCHANGED <<mergeLocals, fileInfos, sanitizeVars, extensionVars, aliasVars, detectorVars>>
    /\ UNCHANGED <<packages, dryRun, fx, disk, parsedPaths, written, removed, returned>>

-----------------------------------------------------------------------------
(* PackageDetector *)

\* DefaultSquashingConfig().BaseDir
BaseDir == <<"s","r","c","/","e","n","t","/","g","e","n">>

nWhere == <<"w","h","e","r","e">>

specialPackages ==
    { <<"e","n","t","s","f">>,
      <<"e","n","t","s","e","a","r","c","h">>,
      <<"e","n","t","t","e","s","t">>,
      <<"h","o","o","k">>,
      <<"i","n","t","e","r","c","e","p","t">>,
      <<"i","n","t","e","r","n","a","l">>,
      <<"m","i","g","r","a","t","e">>,
      <<"p","r","e","d","i","c","a","t","e">>,
      <<"p","r","i","v","a","c","y">>,
      <<"r","u","n","t","i","m","e">>,
      <<"s","f","s","y","n","c">>,
      <<"s","f","r","e","c","o","n","c","i","l","e">> }

\* strings.HasPrefix and strings.HasSuffix
HasPrefix(str, prefix) ==
    Len(str) >= Len(prefix) /\ SubSeq(str, 1, Len(prefix)) = prefix

HasSuffix(str, suffix) ==
    Len(str) >= Len(suffix) /\ SubSeq(str, Len(str) - Len(suffix) + 1, Len(str)) = suffix

\* strings.Contains(str, "/")
ContainsSlash(str) == \E k \in 1..Len(str) : str[k] = "/"

\* filepath.Rel(pd.config.BaseDir, dirPath) for a directory below BaseDir.
Rel(dirPath) == SubSeq(dirPath, Len(BaseDir) + 2, Len(dirPath))

\* classifyPackage
classifyPackage(dirPath) ==
    IF dirPath = BaseDir THEN "root"
    ELSE LET relPath == Rel(dirPath)
         IN IF \E special \in specialPackages :
                   relPath = special \/ HasPrefix(relPath, special \o <<"/">>)
            THEN "special"
            ELSE IF ~ContainsSlash(relPath) THEN "entity"
            ELSE "special"

\* listGoFiles: the names of the entries that are no directories and end in
\* ".go", in the order of os.ReadDir, sorted by name (os.ReadDir fails on a
\* directory that is not readable, and analyzeDirectory returns the error).
listGoFiles(dir) ==
    SortStrings({e.name : e \in {x \in dir.entries : ~x.isDir /\ HasSuffix(x.name, GoSuffix)}})

\* extractEntityName: filepath.Base(dirPath)
extractEntityName(dirPath) == LastSegment(dirPath)

\* checkExpectedFiles: hasEntityFile, hasWhereFile
checkExpectedFiles(files, entityName) ==
    << \E k \in 1..Len(files) : files[k] = entityName \o GoSuffix,
       \E k \in 1..Len(files) : files[k] = nWhere \o GoSuffix >>

\* shouldSquashPackage
shouldSquashPackage(pkg) ==
    IF classifyPackage(pkg.Path) = "root" THEN Len(pkg.Files) >= 2
    ELSE IF Len(pkg.Files) # 2 THEN FALSE
    ELSE pkg.HasEntityFile /\ pkg.HasWhereFile

\* analyzeDirectory: the package and whether it should be squashed.
analyzeDirectory(dir) ==
    LET pkgType == classifyPackage(dir.path)
        files == listGoFiles(dir)
        entityName == IF pkgType = "root" THEN nGen ELSE extractEntityName(dir.path)
        expected == checkExpectedFiles(files, entityName)
        pkg == [Path |-> dir.path,
                Files |-> files,
                EntityName |-> entityName,
                HasEntityFile |-> IF pkgType = "root" THEN Len(files) > 0 ELSE expected[1],
                HasWhereFile |-> IF pkgType = "root" THEN FALSE ELSE expected[2]]
    IN IF pkgType \notin {"entity", "root"} \/ ~dir.readable
       THEN [pkg |-> [Path |-> dir.path], shouldSquash |-> FALSE]
       ELSE [pkg |-> pkg, shouldSquash |-> shouldSquashPackage(pkg)]

\* The packages of the directories in the given order that should be
\* squashed.
RECURSIVE SquashableAmong(_)
SquashableAmong(ds) ==
    IF ds = <<>> THEN <<>>
    ELSE (IF analyzeDirectory(Head(ds)).shouldSquash
          THEN <<analyzeDirectory(Head(ds)).pkg>> ELSE <<>>)
         \o SquashableAmong(Tail(ds))

\* FindSquashablePackages: the root directory, then filepath.Walk over the
\* directories below it; dirs holds them in that order.
FindSquashablePackages ==
    /\ pc = "find"
    /\ found' = SquashableAmong(dirs)
    /\ pc' = "found"
    /\ UNCHANGED aliasVars
    /\ UNCHANGED <<input, fileInfos, usedIdentifiers, pathToImport, pathToAlias,
                   aliasToPath, packageNameToAlias, ii, imports, allDecls, seenDecls,
                   firstTable, calls>>
    /\ UNCHANGED <<packageVars, sanitizeVars, extensionVars, dirs>>

\* filepath.Walk returns an error: FindSquashablePackages returns nil and the
\* error.
FindFails ==
    /\ pc = "find"
    /\ found' = <<>>
    /\ pc' = "findError"
    /\ UNCHANGED aliasVars
    /\ UNCHANGED <<input, fileInfos, usedIdentifiers, pathToImport, pathToAlias,
                   aliasToPath, packageNameToAlias, ii, imports, allDecls, seenDecls,
                   firstTable, calls>>
    /\ UNCHANGED <<packageVars, sanitizeVars, extensionVars, dirs>>

-----------------------------------------------------------------------------
(* NewExtension and Hooks *)

\* An option not passed to NewExtension; WithVerboseLogging(b) and
\* WithDryRun(b) are "true" and "false".
Unset == "unset"

NoOptions == [verboseLogging |-> Unset, dryRun |-> Unset]

\* No environment variable is "true".
NoEnv == [disable |-> FALSE, verbose |-> FALSE, dryRun |-> FALSE]

\* No Extension has been built: squishFiles or a function of the merger is
\* called directly.
NotBuilt ==
    /\ options = NoOptions
    /\ env = NoEnv
    /\ verboseLogging = FALSE
    /\ hooks = "unset"

\* GenerateUniqueAlias and FindSquishablePackages are not called on their
\* own.
NotCalled ==
    /\ aliasArg = <<>>
    /\ genBaseName = <<>>
    /\ genCounter = 0
    /\ genAlias = <<>>
    /\ dirs = <<>>
    /\ found = <<>>

\* A field of the Extension after the options were applied to its default,
\* false.
Applied(option) == option = "true"

\* NewExtension: the defaults, the options, then the environment; with
\* DISABLE_ENT_SQUISHING it returns the zero Extension.
NewExtension ==
    /\ pc = "new"
    /\ verboseLogging' = IF env.disable THEN FALSE
                         ELSE (Applied(options.verboseLogging) \/ env.verbose)
    /\ dryRun' = IF env.disable THEN FALSE
                 ELSE (Applied(options.dryRun) \/ env.dryRun)
    /\ pc' = "hooks"
    /\ UNCHANGED <<input, fileInfos, usedIdentifiers, pathToImport, pathToAlias,
                   aliasToPath, packageNameToAlias, ii, imports, allDecls, seenDecls,
                   firstTable, calls>>
    /\ UNCHANGED <<packages, pi, fx, disk, parsedPaths, written, removed, results,
                   returned>>
    /\ UNCHANGED <<sanitizeVars, options, env, hooks, aliasVars, detectorVars>>

\* The condition under which Hooks returns an empty list.
ReturnsNoHooks(verbose, dr) == verbose = FALSE /\ dr = FALSE

\* Hooks is called by entc when the extension is installed.
Hooks ==
    /\ pc = "hooks"
    /\ hooks' = IF ReturnsNoHooks(verboseLogging, dryRun) THEN "none" ELSE "hook"
    /\ pc' = "generate"
    /\ UNCHANGED <<input, fileInfos, usedIdentifiers, pathToImport, pathToAlias,
                   aliasToPath, packageNameToAlias, ii, imports, allDecls, seenDecls,
                   firstTable, calls>>
    /\ UNCHANGED <<packageVars, sanitizeVars, options, env, verboseLogging, aliasVars,
                   detectorVars>>

\* Normal generation fails: with the hook installed the hook returns the
\* error before squishFiles is called.
GenerateFails ==
    /\ pc = "generate"
    /\ returned' = "error"
    /\ pc' = "returned"
    /\ UNCHANGED <<input, fileInfos, usedIdentifiers, pathToImport, pathToAlias,
                   aliasToPath, packageNameToAlias, ii, imports, allDecls, seenDecls,
                   firstTable, calls>>
    /\ UNCHANGED <<packages, dryRun, pi, fx, disk, parsedPaths, written, removed, results>>
    /\ UNCHANGED <<sanitizeVars, extensionVars, aliasVars, detectorVars>>

\* Normal generation succeeds and no hook is installed: code generation is
\* over.
GenerateOnly ==
    /\ pc = "generate"
    /\ hooks = "none"
    /\ returned' = "nil"
    /\ pc' = "returned"
    /\ UNCHANGED <<input, fileInfos, usedIdentifiers, pathToImport, pathToAlias,
                   aliasToPath, packageNameToAlias, ii, imports, allDecls, seenDecls,
                   firstTable, calls>>
    /\ UNCHANGED <<packages, dryRun, pi, fx, disk, parsedPaths, written, removed, results>>
    /\ UNCHANGED <<sanitizeVars, extensionVars, aliasVars, detectorVars>>

\* Normal generation succeeds and the hook goes on to squishFiles.
GenerateThenSquish ==
    /\ pc = "generate"
    /\ hooks = "hook"
    /\ pc' = "detect"
    /\ UNCHANGED <<input, fileInfos, usedIdentifiers, pathToImport, pathToAlias,
                   aliasToPath, packageNameToAlias, ii, imports, allDecls, seenDecls,
                   firstTable, calls>>
    /\ UNCHANGED <<packageVars, sanitizeVars, extensionVars, aliasVars, detectorVars>>

-----------------------------------------------------------------------------
(* The inputs: groups of parsed units *)

MaxUnits == 2      \* units in a group
MaxImports == 3    \* import specs in a group, over all its units
MaxDecls == 3      \* declarations in a group, over all its units

nS == <<"s">>
nSpkg == <<"s","p","k","g">>
nT == <<"T">>
nF == <<"f">>
nU == <<"U">>
nK == <<"K">>
nLog == <<"l","o","g">>
nStdlog == <<"s","t","d","l","o","g">>
nMain == <<"m","a","i","n">>
nBlank == <<"_">>
nDot == <<".">>
nPkg2 == <<"p","k","g","2">>
nOther == <<"o","t","h","e","r">>

pAS == <<"\"","a","/","s","\"">>
pBS == <<"\"","b","/","s","\"">>
pLog == <<"\"","l","o","g","\"">>
pXLog == <<"\"","x","/","l","o","g","\"">>

Imp(path, name) == [path |-> path, name |-> name]

Binder(cat, name) == [cat |-> cat, name |-> name]

Ident(name) == [op |-> "ident", name |-> name]
Star(x) == [op |-> "star", x |-> x]
\* An instantiated generic type x[index] (ast.IndexExpr).
Index(x, index) == [op |-> "index", x |-> x, index |-> index]

GenDecl(kind, names, binds) ==
    [kind |-> kind, names |-> names, recv |-> NoRecv, binds |-> binds,
     sel |-> <<>>, specs |-> <<>>]

FuncDecl(name, recv, binds, sel) ==
    [kind |-> "func", names |-> <<name>>, recv |-> recv, binds |-> binds,
     sel |-> sel, specs |-> <<>>]

ImportDecl(specs) ==
    [kind |-> "import", names |-> <<>>, recv |-> NoRecv, binds |-> {},
     sel |-> <<>>, specs |-> specs]

\* A parsed file: its imports are also its first declaration.
Unit(name, imps, decls) ==
    [name |-> name, imports |-> imps,
     decls |-> (IF imps = <<>> THEN <<>> ELSE <<ImportDecl(imps)>>) \o decls]

\* The items with unitOf[k] = u, in order.
RECURSIVE Part(_, _, _)
Part(items, unitOf, u) ==
    IF items = <<>> THEN <<>>
    ELSE (IF Head(unitOf) = u THEN <<Head(items)>> ELSE <<>>)
         \o Part(Tail(items), Tail(unitOf), u)

\* The ways to deal n items, in order, to units 1..m.
Deals(n, m) ==
    {f \in [1..n -> 1..m] : \A k \in 1..(n - 1) : f[k] <= f[k + 1]}

DistinctPaths(imps) ==
    \A a, b \in 1..Len(imps) : a # b => imps[a].path # imps[b].path

\* Imports of paths that share a last segment or are in the standard table,
\* unaliased or with an explicit alias.
ImportOptions ==
    { Imp(pAS, NoName), Imp(pBS, NoName), Imp(pLog, NoName), Imp(pXLog, NoName),
      Imp(pLog, nS), Imp(pBS, nS) }

\* What the first unit's function binds.
BinderOptions ==
    { {}, {Binder("param", nS), Binder("result", nLog)}, {Binder("localvar", nSpkg)} }

\* A group for import resolution: imps dealt to m units by unitOf.  Each unit
\* has one function that refers to s and log, the first unit's with binders;
\* the last of several units declares the first unit's function again.
AliasGroup(m, imps, unitOf, binds) ==
    [u \in 1..m |->
        Unit(nMain, Part(imps, unitOf, u),
             << FuncDecl(nF \o Itoa(u), NoRecv, IF u = 1 THEN binds ELSE {},
                         <<nS, nLog>>) >>
             \o (IF u = m /\ m > 1 THEN << FuncDecl(nF \o Itoa(1), NoRecv, {}, <<>>) >>
                 ELSE <<>>))]

\* Every deal of up to MaxImports imports to up to MaxUnits units.
InitAlias ==
    \E n \in 0..MaxImports, m \in 1..MaxUnits :
        \E imps \in [1..n -> ImportOptions], unitOf \in Deals(n, m), binds \in BinderOptions :
            /\ \A u \in 1..m : DistinctPaths(Part(imps, unitOf, u))
            /\ input = AliasGroup(m, imps, unitOf, binds)

\* A body that binds s, spkg and spkg2 ... spkg<last>.
ManyBinders(last) ==
    {Binder("localvar", nS), Binder("localvar", nSpkg)}
    \cup {Binder("localvar", NumberedCandidate(nS, k)) : k \in 2..last}

\* Imports for the groups whose identifiers exhaust GenerateUniqueAlias.
ManyImportLists ==
    { << Imp(pLog, nPkg2), Imp(pAS, NoName) >>,
      << Imp(pAS, NoName), Imp(pLog, nPkg2) >>,
      << Imp(pAS, NoName), Imp(pBS, NoName) >>,
      << Imp(pLog, nPkg2), Imp(pAS, NoName), Imp(pBS, NoName) >> }

\* Groups in which every capped candidate for s, or every one but the last,
\* is a bound identifier.
InitMany ==
    \E m \in 1..MaxUnits, imps \in ManyImportLists, last \in {MaxCounter - 1, MaxCounter} :
        \E unitOf \in Deals(Len(imps), m) :
            /\ \A u \in 1..m : DistinctPaths(Part(imps, unitOf, u))
            /\ input = AliasGroup(m, imps, unitOf, ManyBinders(last))

\* Dot and blank imports next to unaliased ones.
SpecialImportOptions ==
    { Imp(pAS, NoName), Imp(pBS, NoName), Imp(pAS, nBlank), Imp(pBS, nBlank),
      Imp(pAS, nDot), Imp(pBS, nDot) }

\* What the first unit's function binds next to dot and blank imports.
SpecialBinderOptions == { {}, {Binder("param", nS)}, {Binder("funclit", nS)} }

InitSpecial ==
    \E n \in 0..MaxImports, m \in 1..MaxUnits :
        \E imps \in [1..n -> SpecialImportOptions], unitOf \in Deals(n, m),
           binds \in SpecialBinderOptions :
            /\ \A u \in 1..m : DistinctPaths(Part(imps, unitOf, u))
            /\ input = AliasGroup(m, imps, unitOf, binds)

\* Declarations: single- and multi-name var declarations, a type, functions
\* and methods of equal signature and different bodies.
DeclOptions ==
    { GenDecl("var", <<nS>>, {}),
      GenDecl("var", <<nS, nT>>, {}),
      GenDecl("type", <<nT>>, {Binder("field", nS)}),
      FuncDecl(nF, NoRecv, {}, <<nS>>),
      FuncDecl(nF, NoRecv, {Binder("assign", nS)}, <<>>),
      FuncDecl(nF, Star(Ident(nT)), {Binder("recv", nT)}, <<nS>>),
      FuncDecl(nF, Ident(nT), {}, <<>>) }

\* Every deal of up to MaxDecls declarations to up to MaxUnits units, each of
\* which imports "a/s".
InitDecls ==
    \E n \in 0..MaxDecls, m \in 1..MaxUnits :
        \E decls \in [1..n -> DeclOptions], unitOf \in Deals(n, m) :
            input = [u \in 1..m |->
                        Unit(nMain, << Imp(pAS, NoName) >>, Part(decls, unitOf, u))]

\* Methods of one name on receivers of every shape: a named type, a pointer
\* to it, two instantiated generic types and a pointer to one, next to a
\* function and a variable of the same name.
ReceiverOptions ==
    { FuncDecl(nF, Ident(nT), {}, <<>>),
      FuncDecl(nF, Star(Ident(nT)), {}, <<nS>>),
      FuncDecl(nF, Index(Ident(nT), Ident(nK)), {}, <<>>),
      FuncDecl(nF, Star(Index(Ident(nT), Ident(nK))), {}, <<nS>>),
      FuncDecl(nF, Index(Ident(nU), Ident(nK)), {}, <<>>),
      FuncDecl(nF, NoRecv, {}, <<>>),
      GenDecl("var", <<nF>>, {}) }

InitReceivers ==
    \E n \in 0..MaxDecls, m \in 1..MaxUnits :
        \E decls \in [1..n -> ReceiverOptions], unitOf \in Deals(n, m) :
            input = [u \in 1..m |->
                        Unit(nMain, << Imp(pAS, NoName) >>, Part(decls, unitOf, u))]

\* MergeASTs called with no unit at all.
InitEmpty == input = <<>>

\* Groups of units that import and declare nothing, with any package names.
InitNames ==
    \E m \in 1..MaxUnits :
        \E names \in [1..m -> {nMain, nOther}] :
            input = [u \in 1..m |-> Unit(names[u], <<>>, <<>>)]

\* The files of the packages: one as large as the limit allows, one larger,
\* one of another package name, one the parser refuses.
FileKinds == {"good", "big", "other", "bad"}

FileOf(kind) ==
    [size   |-> CASE kind = "good" -> MaxFileSize
                  [] kind = "big"  -> MaxFileSize + 1
                  [] OTHER         -> MaxFileSize - 1,
     parses |-> kind # "bad",
     unit   |-> Unit(IF kind = "other" THEN nOther ELSE nMain,
                     << Imp(pAS, NoName) >>,
                     << FuncDecl(nF, NoRecv, {}, <<nS>>) >>)]

MaxFiles == 3      \* files in a package
MaxPackages == 2   \* packages squishFiles detects

KindLists == UNION {[1..m -> FileKinds] : m \in 0..MaxFiles}

\* The directory and the file names of the i-th package: the root package
\* "gen" has no file at its output path, an entity package "e" has e.go.
PackagePath(i, root) == (IF root THEN <<"r">> ELSE <<"e">>) \o Itoa(i)

FileName(k, root) ==
    IF ~root /\ k = 1 THEN <<"e">> \o GoSuffix ELSE <<"f">> \o Itoa(k) \o GoSuffix

Package(i, root, kinds) ==
    [Path |-> PackagePath(i, root),
     Files |-> [k \in 1..Len(kinds) |-> FileName(k, root)],
     EntityName |-> IF root THEN nGen ELSE <<"e">>,
     Content |-> [k \in 1..Len(kinds) |-> FileOf(kinds[k])]]

\* The packages before the last: an entity package that merges and a root
\* package with an oversize file.
EarlierPackages ==
    { [root |-> FALSE, kinds |-> <<"good", "good">>],
      [root |-> TRUE, kinds |-> <<"good", "big">>] }

\* The paths of the packages' files.
FilePaths(pkgs) ==
    UNION { {Join(pkgs[i].Path, pkgs[i].Files[k]) : k \in 1..Len(pkgs[i].Files)}
            : i \in 1..Len(pkgs) }

\* Up to MaxPackages packages, the last with any files, and either mode.
InitPackages ==
    \E n \in 0..MaxPackages, dr \in BOOLEAN, root \in BOOLEAN, kinds \in KindLists :
        \E early \in [1..(n - 1) -> EarlierPackages] :
            LET descr == [i \in 1..n |->
                            IF i < n THEN early[i] ELSE [root |-> root, kinds |-> kinds]]
            IN /\ (n = 0 => (root /\ kinds = <<>>))
               /\ packages = [i \in 1..n |-> Package(i, descr[i].root, descr[i].kinds)]
               /\ disk = FilePaths([i \in 1..n |->
                                        Package(i, descr[i].root, descr[i].kinds)])
               /\ dryRun = dr

-----------------------------------------------------------------------------
Start ==
    /\ fileInfos = input
    /\ pc = "start"
    /\ usedIdentifiers = {}
    /\ pathToImport = <<>>
    /\ pathToAlias = <<>>
    /\ aliasToPath = <<>>
    /\ packageNameToAlias = <<>>
    /\ ii = 1
    /\ imports = <<>>
    /\ allDecls = <<>>
    /\ seenDecls = {}
    /\ firstTable = <<>>
    /\ calls = 0
    /\ packages = <<>>
    /\ dryRun = FALSE
    /\ pi = 1
    /\ fx = 1
    /\ disk = {}
    /\ parsedPaths = {}
    /\ written = <<>>
    /\ removed = <<>>
    /\ results = <<>>
    /\ returned = "none"
    /\ sanitizeArg = <<>>
    /\ sanitizeRet = "none"
    /\ NotBuilt
    /\ NotCalled

Init == (InitAlias \/ InitMany \/ InitEmpty \/ InitNames) /\ Start

InitS == (InitSpecial \/ InitEmpty) /\ Start

InitD == (InitDecls \/ InitEmpty) /\ Start

InitR == (InitReceivers \/ InitEmpty) /\ Start

\* The characters of the names given to SanitizeIdentifier: letters of both
\* cases, a digit, the underscore, and characters no identifier has.
NameChars == {"g", "o", "Z", "0", "_", ".", "-", NonASCII}

MaxNameLen == 3

\* The names of at most n characters.
RECURSIVE NamesUpTo(_)
NamesUpTo(n) ==
    IF n = 0 THEN {<<>>}
    ELSE LET shorter == NamesUpTo(n - 1)
         IN shorter \cup {Append(w, c) : w \in shorter, c \in NameChars}

\* The names of the test table, the keywords and a keyword with a suffix.
SanitizeInputs ==
    NamesUpTo(MaxNameLen) \cup goKeywords
        \cup {k \o <<c>> : k \in goKeywords, c \in {"0", "-"}}

\* SanitizeIdentifier is about to be called on a name.
InitSanitize ==
    /\ sanitizeArg \in SanitizeInputs
    /\ sanitizeRet = "none"
    /\ NotBuilt
    /\ NotCalled
    /\ pc = "sanitize"
    /\ input = <<>>
    /\ fileInfos = <<>>
    /\ usedIdentifiers = {}
    /\ pathToImport = <<>>
    /\ pathToAlias = <<>>
    /\ aliasToPath = <<>>
    /\ packageNameToAlias = <<>>
    /\ ii = 1
    /\ imports = <<>>
    /\ allDecls = <<>>
    /\ seenDecls = {}
    /\ firstTable = <<>>
    /\ calls = 0
    /\ packages = <<>>
    /\ dryRun = FALSE
    /\ pi = 1
    /\ fx = 1
    /\ disk = {}
    /\ parsedPaths = {}
    /\ written = <<>>
    /\ removed = <<>>
    /\ results = <<>>
    /\ returned = "none"

\* The base names of the test table of GenerateUniqueAlias: a valid name, a
\* keyword, an invalid name and the empty string.
nFor == <<"f","o","r">>

BaseNames == {nS, nFor, <<"1">>, <<>>}

\* The first candidates for a base name.
FirstCandidates(base) ==
    LET b == SanitizeIdentifier(base)
    IN {b, b \o Pkg, NumberedCandidate(b, 2)}

\* Every candidate with "pkg" for a base name up to the counter last.
ManyCandidates(base, last) ==
    LET b == SanitizeIdentifier(base)
    IN {b \o Pkg} \cup {NumberedCandidate(b, k) : k \in 2..last}

\* Identifier sets: some of the first candidates, or every candidate up to the
\* cap or the one before it.
UsedSets(base) ==
    SUBSET FirstCandidates(base)
    \cup {ManyCandidates(base, last) : last \in {MaxCounter - 1, MaxCounter}}

\* Alias tables: empty, or holding a candidate or a fallback name.
AliasTables(base) ==
    {<<>>} \cup {a :> pAS : a \in {SanitizeIdentifier(base) \o Pkg,
                                   NumberedCandidate(SanitizeIdentifier(base), 3),
                                   FallbackAlias(<<>>), FallbackAlias(nS :> pAS)}}

\* GenerateUniqueAlias is about to be called.
InitGenerate ==
    /\ \E base \in BaseNames :
          /\ aliasArg = base
          /\ usedIdentifiers \in UsedSets(base)
          /\ aliasToPath \in AliasTables(base)
    /\ genBaseName = aliasArg
    /\ genCounter = 0
    /\ genAlias = <<>>
    /\ pc = "generateAlias"
    /\ dirs = <<>>
    /\ found = <<>>
    /\ NotBuilt
    /\ input = <<>>
    /\ fileInfos = <<>>
    /\ pathToImport = <<>>
    /\ pathToAlias = <<>>
    /\ packageNameToAlias = <<>>
    /\ ii = 1
    /\ imports = <<>>
    /\ allDecls = <<>>
    /\ seenDecls = {}
    /\ firstTable = <<>>
    /\ calls = 0
    /\ packages = <<>>
    /\ dryRun = FALSE
    /\ pi = 1
    /\ fx = 1
    /\ disk = {}
    /\ parsedPaths = {}
    /\ written = <<>>
    /\ removed = <<>>
    /\ results = <<>>
    /\ returned = "none"
    /\ sanitizeArg = <<>>
    /\ sanitizeRet = "none"

\* The directories below BaseDir, by their path relative to it: entity-like
\* names, the name where, a special package, a name a special package is a
\* prefix of, and nested directories.
nUser == <<"u","s","e","r">>
nHook == <<"h","o","o","k">>
nHooks == <<"h","o","o","k","s">>
nSub == <<"s","u","b">>
nX == <<"x">>
nNotes == <<"n","o","t","e","s",".","t","x","t">>

RelPaths ==
    { nUser, nWhere, nHook, nHooks, Join(nUser, nSub), Join(nHook, nSub) }

\* The relative path of the directory a directory is in; of a direct
\* subdirectory, the empty path of BaseDir.
ParentOf(rel) ==
    IF ContainsSlash(rel)
    THEN SubSeq(rel, 1, (CHOOSE k \in 1..Len(rel) : rel[k] = "/") - 1)
    ELSE <<>>

File(name) == [name |-> name, isDir |-> FALSE]

Dir(name) == [name |-> name, isDir |-> TRUE]

\* What a directory named base may hold besides its subdirectories.
EntryOptions(base) ==
    { {},
      {File(base \o GoSuffix), File(nWhere \o GoSuffix)},
      {File(base \o GoSuffix), File(nWhere \o GoSuffix), File(nX \o GoSuffix)},
      {File(base \o GoSuffix), File(nX \o GoSuffix)},
      {File(nWhere \o GoSuffix), File(nX \o GoSuffix)},
      {File(base \o GoSuffix), File(nWhere \o GoSuffix), File(nNotes)},
      {File(base \o GoSuffix), File(nWhere \o GoSuffix), Dir(nX \o GoSuffix)} }

\* What BaseDir may hold besides its subdirectories.
RootOptions ==
    { {},
      {File(nF \o GoSuffix)},
      {File(nF \o GoSuffix), File(nX \o GoSuffix)},
      {File(nF \o GoSuffix), File(nX \o GoSuffix), File(nS \o GoSuffix)},
      {File(nF \o GoSuffix), File(nNotes)} }

MaxDirs == 2       \* directories below BaseDir

DirPath(rel) == IF rel = <<>> THEN BaseDir ELSE Join(BaseDir, rel)

\* The directories of a tree in the order FindSquashablePackages visits them:
\* BaseDir, then filepath.Walk's lexical order.
TreeOf(chosen, rootEntries, entriesOf, unreadable) ==
    LET order == <<<<>>>> \o SortStrings(chosen)
        below(rel) == {Dir(LastSegment(c)) : c \in {d \in chosen : ParentOf(d) = rel}}
    IN [k \in 1..Len(order) |->
          [path |-> DirPath(order[k]),
           entries |-> (IF order[k] = <<>> THEN rootEntries ELSE entriesOf[order[k]])
                       \cup below(order[k]),
           readable |-> order[k] \notin unreadable]]

\* FindSquashablePackages is about to be called on a generation directory
\* with up to MaxDirs directories below it, at most one of them unreadable.
InitDetector ==
    /\ \E chosen \in SUBSET RelPaths :
          /\ Cardinality(chosen) <= MaxDirs
          /\ \A c \in chosen : ParentOf(c) = <<>> \/ ParentOf(c) \in chosen
          /\ \E rootEntries \in RootOptions,
                entriesOf \in [chosen -> UNION {EntryOptions(LastSegment(c)) : c \in chosen}],
                unreadable \in {{}} \cup {{c} : c \in chosen \cup {<<>>}} :
                /\ \A c \in chosen : entriesOf[c] \in EntryOptions(LastSegment(c))
                /\ dirs = TreeOf(chosen, rootEntries, entriesOf, unreadable)
    /\ found = <<>>
    /\ pc = "find"
    /\ aliasArg = <<>>
    /\ genBaseName = <<>>
    /\ genCounter = 0
    /\ genAlias = <<>>
    /\ NotBuilt
    /\ input = <<>>
    /\ fileInfos = <<>>
    /\ usedIdentifiers = {}
    /\ pathToImport = <<>>
    /\ pathToAlias = <<>>
    /\ aliasToPath = <<>>
    /\ packageNameToAlias = <<>>
    /\ ii = 1
    /\ imports = <<>>
    /\ allDecls = <<>>
    /\ seenDecls = {}
    /\ firstTable = <<>>
    /\ calls = 0
    /\ packages = <<>>
    /\ dryRun = FALSE
    /\ pi = 1
    /\ fx = 1
    /\ disk = {}
    /\ parsedPaths = {}
    /\ written = <<>>
    /\ removed = <<>>
    /\ results = <<>>
    /\ returned = "none"
    /\ sanitizeArg = <<>>
    /\ sanitizeRet = "none"

\* The options and the environment NewExtension is called with.
OptionValues == {Unset, "true", "false"}

\* Packages that merge, and packages each step of MergePackage refuses.
ExtensionPackages ==
    EarlierPackages
    \cup { [root |-> FALSE, kinds |-> <<"good", "bad">>],
           [root |-> FALSE, kinds |-> <<"good">>],
           [root |-> FALSE, kinds |-> <<"good", "other">>] }

\* NewExtension is about to be called; the generation directory holds up to
\* MaxPackages packages.
InitExtension ==
    /\ \E n \in 0..MaxPackages :
          \E descr \in [1..n -> ExtensionPackages] :
              LET pkgs == [i \in 1..n |-> Package(i, descr[i].root, descr[i].kinds)]
              IN packages = pkgs /\ disk = FilePaths(pkgs)
    /\ options \in [verboseLogging : OptionValues, dryRun : OptionValues]
    /\ env \in [disable : BOOLEAN, verbose : BOOLEAN, dryRun : BOOLEAN]
    /\ verboseLogging = FALSE
    /\ dryRun = FALSE
    /\ hooks = "unset"
    /\ pc = "new"
    /\ input = <<>>
    /\ fileInfos = <<>>
    /\ usedIdentifiers = {}
    /\ pathToImport = <<>>
    /\ pathToAlias = <<>>
    /\ aliasToPath = <<>>
    /\ packageNameToAlias = <<>>
    /\ ii = 1
    /\ imports = <<>>
    /\ allDecls = <<>>
    /\ seenDecls = {}
    /\ firstTable = <<>>
    /\ calls = 0
    /\ pi = 1
    /\ fx = 1
    /\ parsedPaths = {}
    /\ written = <<>>
    /\ removed = <<>>
    /\ results = <<>>
    /\ returned = "none"
    /\ sanitizeArg = <<>>
    /\ sanitizeRet = "none"
    /\ NotCalled

\* squishFiles is about to run on the packages; nothing else has happened.
InitP ==
    /\ InitPackages
    /\ input = <<>>
    /\ fileInfos = <<>>
    /\ pc = "detect"
    /\ usedIdentifiers = {}
    /\ pathToImport = <<>>
    /\ pathToAlias = <<>>
    /\ aliasToPath = <<>>
    /\ packageNameToAlias = <<>>
    /\ ii = 1
    /\ imports = <<>>
    /\ allDecls = <<>>
    /\ seenDecls = {}
    /\ firstTable = <<>>
    /\ calls = 0
    /\ pi = 1
    /\ fx = 1
    /\ parsedPaths = {}
    /\ written = <<>>
    /\ removed = <<>>
    /\ results = <<>>
    /\ returned = "none"
    /\ sanitizeArg = <<>>
    /\ sanitizeRet = "none"
    /\ NotBuilt
    /\ NotCalled

Next ==
    \/ MergeError
    \/ StartMerge
    \/ ResolveSeen
    \/ ResolveNew
    \/ BuildImports
    \/ MergeSkipImport
    \/ MergeSkipDuplicate
    \/ MergeKeep
    \/ FinishMerge
    \/ ResolveAgain
    \/ ReturnAgain

\* squishFiles: MergePackage on each package, MergeASTs within it.
NextPackage ==
    \/ DetectFails
    \/ Detect
    \/ SquishReturn
    \/ StartPackage
    \/ ParseOversize
    \/ ParseFails
    \/ ParseFile
    \/ CountFails
    \/ CountPasses
    \/ MergeError
    \/ StartMerge
    \/ ResolveSeen
    \/ ResolveNew
    \/ BuildImports
    \/ MergeSkipImport
    \/ MergeSkipDuplicate
    \/ MergeKeep
    \/ FinishMerge
    \/ MergeFails
    \/ DryRunReturn
    \/ WriteFails
    \/ WriteFile
    \/ RemoveSkip
    \/ RemoveFile
    \/ RemoveFails
    \/ RemoveDone

Spec == Init /\ [][Next]_vars

SpecPackage == InitP /\ [][NextPackage]_vars

NextSanitize == Sanitize

NextDetector ==
    \/ FindSquashablePackages
    \/ FindFails

SpecDetector == InitDetector /\ [][NextDetector]_vars

NextGenerate ==
    \/ GenSanitize
    \/ GenReturnBase
    \/ GenBaseTaken
    \/ GenReturnPkg
    \/ GenPkgTaken
    \/ GenReturnNumbered
    \/ GenNextCounter
    \/ GenFallback

\* A call of GenerateUniqueAlias runs on until it returns.
SpecGenerate == InitGenerate /\ [][NextGenerate]_vars /\ WF_vars(NextGenerate)

\* entc.Generate with the extension: NewExtension, Hooks, generation, and
\* squishFiles when the hook is installed.
NextExtension ==
    \/ NewExtension
    \/ Hooks
    \/ GenerateFails
    \/ GenerateOnly
    \/ GenerateThenSquish
    \/ NextPackage

SpecExtension == InitExtension /\ [][NextExtension]_vars

SpecSanitize == InitSanitize /\ [][NextSanitize]_vars

SpecSpecial == InitS /\ [][Next]_vars

SpecDecls == InitD /\ [][Next]_vars

SpecReceivers == InitR /\ [][Next]_vars

-----------------------------------------------------------------------------
(* Properties of ResolveImportConflicts *)

\* The alias a resolved spec stands for: its name, or the last path segment
\* when it has none.
FinalAlias(spec) == IF spec.name # NoName THEN spec.name ELSE PackageNameOf(spec.path)

\* MergeASTs has returned: pathToImport is the table the first call of
\* ResolveImportConflicts returned.
Resolved == pc = "done"

\* The imports of the group as given, in visiting order, and their paths.
InputImports == AllImports(input)

InputPaths == {InputImports[k].path : k \in 1..Len(InputImports)}

\* Where a path is first seen, and the import seen there.
FirstIndex(path) ==
    CHOOSE k \in 1..Len(InputImports) :
        /\ InputImports[k].path = path
        /\ \A j \in 1..(k - 1) : InputImports[j].path # path

FirstSpec(path) == InputImports[FirstIndex(path)]

\* The identifier set collected from the group.
IdentifierSet == CollectAllIdentifiers(input)

\* The final aliases of the paths first seen before the given path.
EarlierAliases(path) ==
    {FinalAlias(pathToImport[q]) :
        q \in {r \in DOMAIN pathToImport : FirstIndex(r) < FirstIndex(path)}}

\* aliasToPath as it was when the path was first seen.
EarlierAliasToPath(path) ==
    [a \in EarlierAliases(path) |->
        CHOOSE q \in DOMAIN pathToImport :
            FirstIndex(q) < FirstIndex(path) /\ FinalAlias(pathToImport[q]) = a]

\* Every candidate GenerateUniqueAlias tries for the base name before
\* its last fallback is an identifier or an alias given before the path.
CandidatesExhausted(base, path) ==
    LET b == SanitizeIdentifier(base)
        taken == IdentifierSet \cup EarlierAliases(path)
    IN /\ (b \o Pkg) \in taken
       /\ \A n \in 2..MaxCounter : NumberedCandidate(b, n) \in taken

\* C1 (as stated): after ResolveImportConflicts no two distinct paths have the
\* same final alias.
C1_AliasesInjective ==
    Resolved =>
        \A p, q \in DOMAIN pathToImport :
            p # q => FinalAlias(pathToImport[p]) # FinalAlias(pathToImport[q])

-----------------------------------------------------------------------------
(* Properties of the merge *)

\* The positions of the group's declarations other than import declarations.
InputDeclPositions ==
    {DeclPositions(input)[k] : k \in {j \in 1..Len(DeclPositions(input)) :
        input[DeclPositions(input)[j][1]].decls[DeclPositions(input)[j][2]].kind # "import"}}

InputDecl(pos) == input[pos[1]].decls[pos[2]]

\* The positions MergeASTs kept, other than the import block.
KeptPositions == {allDecls[k] : k \in 1..Len(allDecls)} \ {<<0, 0>>}

\* Position a comes before position b in visiting order.
PosLess(a, b) == a[1] < b[1] \/ (a[1] = b[1] /\ a[2] < b[2])

\* The per-name signatures of a declaration: one per name of a var, const or
\* type declaration, the name of a function, receiver type and name of a
\* method.
PerNameSignatures(decl) ==
    IF decl.kind \in {"var", "const", "type"}
    THEN {<<decl.kind, decl.names[k]>> : k \in 1..Len(decl.names)}
    ELSE IF decl.recv # NoRecv
    THEN {<<"method", getTypeName(decl.recv), decl.names[1]>>}
    ELSE {<<"func", decl.names[1]>>}

\* C3 (as stated): the merged unit holds one declaration per distinct per-name
\* signature of the inputs: as many kept declarations as signatures, no
\* signature kept twice, and a declaration that repeats an earlier one's
\* signature dropped.
C3_OneDeclPerSignature ==
    pc = "done" =>
        /\ Cardinality(KeptPositions)
              = Cardinality(UNION {PerNameSignatures(InputDecl(pos)) : pos \in InputDeclPositions})
        /\ \A a, b \in KeptPositions :
              a # b => PerNameSignatures(InputDecl(a)) \cap PerNameSignatures(InputDecl(b)) = {}
        /\ \A a, b \in InputDeclPositions :
              (PosLess(a, b)
               /\ PerNameSignatures(InputDecl(a)) \cap PerNameSignatures(InputDecl(b)) # {})
                  => b \notin KeptPositions

\* Every name a unit's declarations bind, whether CollectAllIdentifiers
\* reaches the binder or not.
AllBoundNames ==
    UNION { UNION { (IF input[u].decls[d].kind \in {"var", "const", "type", "func"}
                     THEN {input[u].decls[d].names[k] : k \in 1..Len(input[u].decls[d].names)}
                     ELSE {})
                    \cup {b.name : b \in input[u].decls[d].binds}
                  : d \in 1..Len(input[u].decls) }
          : u \in 1..Len(input) }

\* The unit writes no other import under the name s.
OnlyWrittenAs(u, k, s) ==
    \A j \in 1..Len(input[u].imports) :
        j # k => (IF input[u].imports[j].name # NoName THEN input[u].imports[j].name
                  ELSE PackageNameOf(input[u].imports[j].path)) # s

\* C4 (as stated): when a unit imports P without a name and a unit of the
\* group binds P's last segment s, P ends with a new alias, s+"pkg" when that
\* name is free, and in the unit that imported P under s every selector on s
\* reads the new alias, the declared and bound names staying as they were.
C4_CollisionRenamesImport ==
    pc = "done" =>
        \A u \in 1..Len(input) : \A k \in 1..Len(input[u].imports) :
            LET P == input[u].imports[k].path
                s == PackageNameOf(P)
                final == FinalAlias(pathToImport[P])
            IN (input[u].imports[k].name = NoName /\ s \in AllBoundNames
                /\ OnlyWrittenAs(u, k, s))
               => /\ final # s
                  /\ final \notin AllBoundNames
                  /\ ( (s \o Pkg) \notin AllBoundNames
                       /\ (\A q \in DOMAIN pathToImport \ {P} :
                              FinalAlias(pathToImport[q]) # (s \o Pkg)) )
                     => final = s \o Pkg
                  /\ \A pos \in KeptPositions :
                        pos[1] = u =>
                           /\ MergedDecl(pos).names = InputDecl(pos).names
                           /\ MergedDecl(pos).binds = InputDecl(pos).binds
                           /\ \A j \in 1..Len(InputDecl(pos).sel) :
                                 MergedDecl(pos).sel[j] =
                                    IF InputDecl(pos).sel[j] = s THEN final
                                    ELSE InputDecl(pos).sel[j]

-----------------------------------------------------------------------------
(* Properties of the aliases given to colliding imports *)

\* Every occurrence of the path in the group is written without a name.
NeverNamed(path) ==
    \A k \in 1..Len(InputImports) :
        InputImports[k].path = path => InputImports[k].name = NoName

\* P and Q are the first two paths of the group with last segment s, both
\* always written without a name, P seen first.
FirstTwoSharing(P, Q, s) ==
    /\ P # Q
    /\ NeverNamed(P) /\ NeverNamed(Q)
    /\ PackageNameOf(P) = s /\ PackageNameOf(Q) = s
    /\ FirstIndex(P) < FirstIndex(Q)
    /\ \A R \in InputPaths \ {P, Q} :
          PackageNameOf(R) = s => FirstIndex(Q) < FirstIndex(R)

\* C5 (as stated): of two unaliased paths sharing the last segment s, s not
\* otherwise bound, the first seen keeps s and the second gets s+"pkg".
C5_SecondGetsPkgSuffix ==
    Resolved =>
        \A P, Q \in InputPaths :
            LET s == PackageNameOf(P)
            IN (FirstTwoSharing(P, Q, s) /\ s \notin AllBoundNames /\ s \notin IdentifierSet)
               => /\ FinalAlias(pathToImport[P]) = s
                  /\ FinalAlias(pathToImport[Q]) = s \o Pkg

\* C5 (amended): the same for paths outside the standard table, when s is a
\* valid identifier that no path seen before P has as final alias; the second
\* gets what GenerateUniqueAlias returns for s: s+"pkg" when that name is
\* neither an identifier nor the final alias of a path seen before Q, and
\* otherwise the first free s+"pkg"+N or, past the cap, the fallback.
C5_SecondGetsGeneratedAlias ==
    Resolved =>
        \A P, Q \in InputPaths :
            LET s == PackageNameOf(P)
                taken == IdentifierSet \cup EarlierAliases(Q)
            IN (/\ FirstTwoSharing(P, Q, s)
                /\ s \notin AllBoundNames /\ s \notin IdentifierSet
                /\ P \notin DOMAIN standardAliases /\ Q \notin DOMAIN standardAliases
                /\ SanitizeIdentifier(s) = s
                /\ s \notin EarlierAliases(P))
               => /\ FinalAlias(pathToImport[P]) = s
                  /\ (s \o Pkg) \notin taken => FinalAlias(pathToImport[Q]) = s \o Pkg
                  /\ (s \o Pkg) \in taken =>
                        FinalAlias(pathToImport[Q])
                           = NumberedAlias(s, IdentifierSet, EarlierAliasToPath(Q))

\* "a/s" and "b/s", unaliased and outside the table, resolved to s and spkg.
C5_Witness ==
    /\ Resolved
    /\ \E P, Q \in DOMAIN pathToImport :
          /\ FirstTwoSharing(P, Q, nS)
          /\ nS \notin IdentifierSet
          /\ P \notin DOMAIN standardAliases /\ Q \notin DOMAIN standardAliases
          /\ FinalAlias(pathToImport[P]) = nS
          /\ FinalAlias(pathToImport[Q]) = nSpkg

\* An alias written in the source other than the dot and blank markers.
IsExplicitAlias(name) == name # NoName /\ name # nDot /\ name # nBlank

\* C6 (as stated): an import written with the explicit alias a has a path in
\* the final table, with final alias a unless a is the final alias of a
\* different path, and then with an alias generated from a (a+"pkg" when
\* free).
C6_ExplicitAliasKept ==
    Resolved =>
        \A k \in 1..Len(InputImports) :
            LET a == InputImports[k].name
                p == InputImports[k].path
                others == {FinalAlias(pathToImport[q]) : q \in DOMAIN pathToImport \ {p}}
            IN IsExplicitAlias(a)
               => /\ p \in DOMAIN pathToImport
                  /\ a \notin others => FinalAlias(pathToImport[p]) = a
                  /\ a \in others =>
                        /\ FinalAlias(pathToImport[p]) # a
                        /\ ((a \o Pkg) \notin (IdentifierSet \cup others))
                              => FinalAlias(pathToImport[p]) = a \o Pkg

\* C6 (amended): a path whose first occurrence is written with the explicit
\* alias a is in the final table, with final alias a unless a is the final
\* alias of a path seen before it, and then with what GenerateUniqueAlias
\* returns for a (a+"pkg" when free).
C6_FirstExplicitAliasKept ==
    Resolved =>
        \A p \in InputPaths :
            LET a == FirstSpec(p).name
                taken == IdentifierSet \cup EarlierAliases(p)
            IN IsExplicitAlias(a)
               => /\ p \in DOMAIN pathToImport
                  /\ a \notin EarlierAliases(p) => FinalAlias(pathToImport[p]) = a
                  /\ a \in EarlierAliases(p) =>
                        /\ FinalAlias(pathToImport[p])
                              = GenerateUniqueAlias(a, IdentifierSet, EarlierAliasToPath(p))
                        /\ (a \o Pkg) \notin taken => FinalAlias(pathToImport[p]) = a \o Pkg

\* One explicit alias kept although it is an identifier, and the same alias
\* written for a later path regenerated.
C6_Witness ==
    /\ Resolved
    /\ \E p, q \in DOMAIN pathToImport :
          /\ p # q
          /\ IsExplicitAlias(FirstSpec(p).name) /\ FirstSpec(q).name = FirstSpec(p).name
          /\ FirstIndex(p) < FirstIndex(q)
          /\ FinalAlias(pathToImport[p]) = FirstSpec(p).name
          /\ FinalAlias(pathToImport[q]) = FirstSpec(q).name \o Pkg

-----------------------------------------------------------------------------
(* Dot and blank imports *)

IsSpecial(imp) == imp.name = nDot \/ imp.name = nBlank

RECURSIVE WithoutSpecialImports(_)
WithoutSpecialImports(imps) ==
    IF imps = <<>> THEN <<>>
    ELSE (IF IsSpecial(Head(imps)) THEN <<>> ELSE <<Head(imps)>>)
         \o WithoutSpecialImports(Tail(imps))

\* The group with its dot and blank imports taken out.
WithoutSpecial(units) ==
    [u \in 1..Len(units) |->
        [units[u] EXCEPT !.imports = WithoutSpecialImports(units[u].imports)]]

\* C7 (as stated): every dot and blank import is in the final table under its
\* marker, and every path imported otherwise has the final alias it has when
\* the group is resolved without its dot and blank imports.
C7_SpecialImportsPassThrough ==
    Resolved =>
        /\ \A k \in 1..Len(InputImports) :
              IsSpecial(InputImports[k])
                 => /\ InputImports[k].path \in DOMAIN pathToImport
                    /\ pathToImport[InputImports[k].path].name = InputImports[k].name
        /\ \A p \in DOMAIN ResolveTable(WithoutSpecial(input)) :
              FinalAlias(pathToImport[p]) = FinalAlias(ResolveTable(WithoutSpecial(input))[p])

-----------------------------------------------------------------------------
(* Determinism and the shape of the merged unit *)

\* C8: the second call of ResolveImportConflicts on the same units returns
\* the table the first call returned: the same paths, each with the same
\* resolved spec and so the same final alias.
C8_ResolveTwiceSameTable ==
    pc = "resolved" =>
        /\ DOMAIN pathToImport = DOMAIN firstTable
        /\ \A p \in DOMAIN pathToImport :
              /\ pathToImport[p] = firstTable[p]
              /\ FinalAlias(pathToImport[p]) = FinalAlias(firstTable[p])

\* Two calls have returned tables in which a collision was resolved.
C8_Witness ==
    /\ pc = "resolved"
    /\ Cardinality(DOMAIN firstTable) >= 2
    /\ \E p \in DOMAIN firstTable :
          FirstSpec(p).name = NoName /\ FinalAlias(firstTable[p]) # PackageNameOf(p)

\* C9: the kept declarations are in visiting order (units in order, each
\* unit's declarations in order), each being a declaration of the input other
\* than an import declaration, and the import block comes before them all.
C9_DeclarationOrder ==
    pc = "done" =>
        /\ \A k \in 1..Len(allDecls) : allDecls[k] = <<0, 0>> => k = 1
        /\ \A k \in 1..Len(allDecls) :
              allDecls[k] # <<0, 0>> => allDecls[k] \in InputDeclPositions
        /\ \A j, k \in 1..Len(allDecls) :
              (j < k /\ allDecls[j] # <<0, 0>>) => PosLess(allDecls[j], allDecls[k])

\* An import block and kept declarations of two units, one declaration
\* dropped.
C9_Witness ==
    /\ pc = "done"
    /\ Len(allDecls) >= 3
    /\ allDecls[1] = <<0, 0>>
    /\ \E a, b \in KeptPositions : a[1] # b[1]
    /\ InputDeclPositions \ KeptPositions # {}

\* The indices of the import declarations of the merged unit.
ImportBlocks == {k \in 1..Len(allDecls) : MergedDecl(allDecls[k]).kind = "import"}

\* C10: the merged unit has at most one import declaration, present exactly
\* when the group imports something; it holds every imported path once, in
\* ascending order.
C10_OneSortedImportBlock ==
    pc = "done" =>
        /\ Cardinality(ImportBlocks) <= 1
        /\ (ImportBlocks = {}) <=> (InputPaths = {})
        /\ \A k \in ImportBlocks :
              LET specs == MergedDecl(allDecls[k]).specs
              IN /\ {specs[j].path : j \in 1..Len(specs)} = InputPaths
                 /\ \A i, j \in 1..Len(specs) : i < j => StrLess(specs[i].path, specs[j].path)

\* Paths first seen in an order that is not ascending, one of them imported
\* by two units.
C10_Witness ==
    /\ pc = "done"
    /\ Cardinality(ImportBlocks) = 1
    /\ Cardinality(InputPaths) >= 2
    /\ Len(InputImports) > Cardinality(InputPaths)
    /\ \E p, q \in InputPaths : FirstIndex(p) < FirstIndex(q) /\ StrLess(q, p)

-----------------------------------------------------------------------------
(* The preconditions of MergeASTs *)

\* C11: MergeASTs returns an error, and has built no part of a merged unit,
\* exactly when the list of units is empty or some unit's package name is
\* not that of the first unit; otherwise it returns a merged unit with the
\* package name all units share.
C11_NamespaceChecked ==
    /\ pc # "start" =>
          (pc = "error" <=>
              (input = <<>> \/ \E u \in 1..Len(input) : input[u].name # input[1].name))
    /\ pc = "error" => (allDecls = <<>> /\ imports = <<>> /\ fileInfos = input)
    /\ pc = "done" => \A u \in 1..Len(input) : input[u].name = MergedName

\* MergeASTs has refused a group whose last unit alone has another package
\* name.
C11_Witness ==
    /\ pc = "error"
    /\ Len(input) >= 2
    /\ input[Len(input)].name # input[1].name
    /\ \A u \in 1..(Len(input) - 1) : input[u].name = input[1].name

-----------------------------------------------------------------------------
(* Properties of MergePackage *)

\* The elements of a sequence.
Range(seq) == {seq[k] : k \in 1..Len(seq)}

\* The paths of the i-th package's files.
PathsOf(i) ==
    {Join(packages[i].Path, packages[i].Files[k]) : k \in 1..Len(packages[i].Files)}

\* MergePackage has returned for the i-th package.
Attempted(i) == i \in 1..Len(results)

\* Nothing of the i-th package was written, nothing of it removed.
NothingWritten(i) == OutputPath(packages[i]) \notin Range(written)

NothingRemoved(i) == Range(removed) \cap PathsOf(i) = {}

\* The i-th package has a file above the size limit, a file the parser
\* refuses, a file of another package name than the first.
TooBig(file) == file.size > MaxFileSize

HasTooBig(i) ==
    \E k \in 1..Len(packages[i].Content) : TooBig(packages[i].Content[k])

HasUnparsable(i) ==
    \E k \in 1..Len(packages[i].Content) : ~packages[i].Content[k].parses

NamesDiffer(i) ==
    \E k \in 1..Len(packages[i].Content) :
        packages[i].Content[k].unit.name # packages[i].Content[1].unit.name

\* The i-th package has not the number of files its kind requires.
CountViolation(i) ==
    IF packages[i].EntityName = nGen THEN Len(packages[i].Files) < 2
    ELSE Len(packages[i].Files) # 2

\* C12: for a package with a wrong number of files MergePackage returns an
\* error and writes and removes nothing; a package with the right number,
\* whose files are all accepted, parsable and of one package name, is merged:
\* MergePackage returns nil in a dry run, and otherwise an error only from
\* the write.
C12_UnitCountChecked ==
    \A i \in 1..Len(packages) :
        /\ CountViolation(i) =>
              /\ NothingWritten(i) /\ NothingRemoved(i)
              /\ Attempted(i) => results[i] # "nil"
        /\ (/\ ~CountViolation(i) /\ ~HasTooBig(i) /\ ~HasUnparsable(i) /\ ~NamesDiffer(i)
            /\ Attempted(i))
           => /\ results[i] \in {"nil", "write error"}
              /\ dryRun => results[i] = "nil"
              /\ results[i] = "nil" <=> (dryRun \/ ~NothingWritten(i))

\* An entity package of two files was merged and then a package of files
\* without fault was refused for their number.
C12_Witness ==
    /\ Len(results) = 2
    /\ packages[1].EntityName # nGen /\ Len(packages[1].Files) = 2 /\ results[1] = "nil"
    /\ CountViolation(2) /\ ~HasTooBig(2) /\ ~HasUnparsable(2) /\ ~NamesDiffer(2)
    /\ Len(packages[2].Files) > 2
    /\ results[2] = "count error"

\* C13 (as stated): when MergePackage fails for an oversize file, a package
\* name mismatch or a wrong number of files, no file of the package has been
\* parsed and no declaration changed.
C13_PreconditionsBeforeParsing ==
    \A i \in 1..Len(packages) :
        (Attempted(i) /\ ~HasUnparsable(i)
         /\ (HasTooBig(i) \/ NamesDiffer(i) \/ CountViolation(i)))
           => /\ results[i] # "nil"
              /\ parsedPaths \cap PathsOf(i) = {}

\* C14: a file above the size limit is never parsed, its package is refused
\* with nothing written or removed; a file of exactly the limit that
\* parseFiles comes to is parsed.
C14_OversizeRefused ==
    \A i \in 1..Len(packages) :
        /\ \A k \in 1..Len(packages[i].Files) :
              TooBig(packages[i].Content[k])
                 => /\ Join(packages[i].Path, packages[i].Files[k]) \notin parsedPaths
                    /\ NothingWritten(i) /\ NothingRemoved(i)
                    /\ Attempted(i) => results[i] = "parse error"
        /\ \A k \in 1..Len(packages[i].Files) :
              (/\ Attempted(i)
               /\ packages[i].Content[k].size <= MaxFileSize
               /\ \A j \in 1..(k - 1) : /\ ~TooBig(packages[i].Content[j])
                                        /\ packages[i].Content[j].parses)
                 => Join(packages[i].Path, packages[i].Files[k]) \in parsedPaths

\* A package was refused for its last file, one above the limit, after a
\* file of exactly the limit was parsed.
C14_Witness ==
    \E i \in 1..Len(results) :
        /\ Len(packages[i].Files) >= 2
        /\ packages[i].Content[1].size = MaxFileSize
        /\ Join(packages[i].Path, packages[i].Files[1]) \in parsedPaths
        /\ packages[i].Content[Len(packages[i].Files)].size = MaxFileSize + 1
        /\ results[i] = "parse error"

\* Nothing stands between the i-th package and the write step: its files are
\* accepted and parsable, of the required number and of one package name.
ReachesWriteStep(i) ==
    ~HasTooBig(i) /\ ~HasUnparsable(i) /\ ~CountViolation(i) /\ ~NamesDiffer(i)

\* C15: in a dry run nothing is ever written or removed, and MergePackage
\* returns nil for exactly the packages for which, without dryRun, it comes to
\* the write step (where it returns nil or the error of the write).
C15_DryRunWritesNothing ==
    /\ dryRun =>
          /\ written = <<>> /\ removed = <<>> /\ disk = FilePaths(packages)
          /\ \A i \in 1..Len(results) : results[i] = "nil" <=> ReachesWriteStep(i)
    /\ ~dryRun =>
          /\ \A i \in 1..Len(results) :
                results[i] \in {"nil", "write error"} <=> ReachesWriteStep(i)
          /\ (pc \in {"done", "remove"}) => ReachesWriteStep(pi)

\* A dry run in which one package was refused and a root package of three
\* files was merged without a file being touched.
C15_Witness ==
    /\ dryRun
    /\ Len(results) = 2
    /\ results[1] # "nil"
    /\ results[2] = "nil"
    /\ Len(packages[2].Files) = 3
    /\ disk = FilePaths(packages)

\* C16: squishFiles calls MergePackage on the packages one after the other,
\* whatever the earlier calls returned, and returns nil when it has called it
\* on all of them; it returns an error only when the detection failed,
\* before any package was touched.
C16_EveryPackageAttempted ==
    /\ pc \notin {"detect", "returned"} =>
          /\ pi = Len(results) + 1
          /\ pi <= Len(packages) + 1
    /\ returned = "nil" => Len(results) = Len(packages)
    /\ returned = "error" => (results = <<>> /\ parsedPaths = {} /\ written = <<>>)
    /\ Range(written) \subseteq
          {OutputPath(packages[i]) : i \in (1..Len(results) \cup {pi}) \cap 1..Len(packages)}

\* squishFiles has returned nil after MergePackage failed on the first
\* package and was still called on the second, which it merged.
C16_Witness ==
    /\ returned = "nil"
    /\ Len(packages) = 2
    /\ results[1] # "nil"
    /\ results[2] = "nil"
    /\ ~NothingWritten(2)

\* C17: without dryRun a file of a package is removed only when the
\* package's output file has been written; the output path is never removed
\* and, once written, stays; and once the output is written MergePackage
\* returns nil, whether or not every removal succeeded.
C17_RemovalAfterWrite ==
    ~dryRun =>
        \A i \in 1..Len(packages) :
            /\ ~NothingRemoved(i) => ~NothingWritten(i)
            /\ OutputPath(packages[i]) \notin Range(removed)
            /\ ~NothingWritten(i) => OutputPath(packages[i]) \in disk
            /\ (Attempted(i) /\ ~NothingWritten(i)) => results[i] = "nil"
            /\ (Attempted(i) /\ results[i] = "nil") => ~NothingWritten(i)

\* An entity package whose output path is one of its files was written, the
\* removal of its other file failed, and MergePackage returned nil.
C17_Witness ==
    /\ ~dryRun
    /\ \E i \in 1..Len(results) :
          /\ results[i] = "nil"
          /\ OutputPath(packages[i]) \in PathsOf(i)
          /\ OutputPath(packages[i]) \in disk
          /\ PathsOf(i) \subseteq disk
          /\ Len(packages[i].Files) = 2

-----------------------------------------------------------------------------
(* Properties of GenerateUniqueAlias and SanitizeIdentifier *)

\* The name handed to GenerateUniqueAlias for an import spec: the explicit
\* alias if there is one, the last segment of the path otherwise.
BaseNameOf(imp) == IF imp.name # NoName THEN imp.name ELSE PackageNameOf(imp.path)

\* C18 (as stated): for the base name of the import ResolveImportConflicts is
\* about to resolve, the identifier set and the alias table built so far,
\* the alias returned by GenerateUniqueAlias is neither a member of the
\* identifier set nor a key of the alias table.
C18_GeneratedAliasIsFree ==
    (pc = "resolve" /\ ii <= Len(AllImports(fileInfos))) =>
        LET alias == GenerateUniqueAlias(BaseNameOf(AllImports(fileInfos)[ii]),
                                         usedIdentifiers, aliasToPath)
        IN /\ alias \notin usedIdentifiers
           /\ alias \notin DOMAIN aliasToPath

\* The characters [A-Za-z] and [0-9], by their codes.
IsLetter(c) == CharCode(c) \in (65..90) \cup (97..122)

IsDigit(c) == CharCode(c) \in 48..57

\* The names matching [A-Za-z_][A-Za-z0-9_]*.
IsIdentifier(name) ==
    /\ Len(name) >= 1
    /\ IsLetter(name[1]) \/ name[1] = "_"
    /\ \A k \in 2..Len(name) : IsLetter(name[k]) \/ IsDigit(name[k]) \/ name[k] = "_"

\* C19: SanitizeIdentifier maps "", "_" and "." to "pkg", a keyword k to
\* k + "pkg", returns any other name matching [A-Za-z_][A-Za-z0-9_]*
\* unchanged, and maps every other name to "pkg".
C19_SanitizeIdentifier ==
    pc = "sanitized" =>
        sanitizeRet =
            IF sanitizeArg \in {<<>>, <<"_">>, <<".">>} THEN Pkg
            ELSE IF sanitizeArg \in goKeywords THEN sanitizeArg \o Pkg
            ELSE IF IsIdentifier(sanitizeArg) THEN sanitizeArg
            ELSE Pkg

\* SanitizeIdentifier has mapped a name that begins as an identifier and goes
\* on with a character no identifier has to "pkg".
C19_Witness ==
    /\ pc = "sanitized"
    /\ Len(sanitizeArg) >= 2
    /\ IsLetter(sanitizeArg[1])
    /\ ~IsIdentifier(sanitizeArg)
    /\ sanitizeRet = Pkg

-----------------------------------------------------------------------------
(* Properties of CollectAllIdentifiers *)

\* The binders of a function signature that is not the one of a FuncDecl:
\* parameters and named results of function literals and function types.
SignatureBinders == {"funclit", "functype"}

\* The names bound in the units by a declaration, a statement, a function
\* signature, a struct or interface type, or an explicit import alias.
ClaimedNames ==
    UNION { UNION { (IF input[u].decls[d].kind \in {"var", "const", "type", "func"}
                     THEN {input[u].decls[d].names[k] : k \in 1..Len(input[u].decls[d].names)}
                     ELSE {})
                    \cup {b.name : b \in {c \in input[u].decls[d].binds :
                                             c.cat \in CollectedBinders \cup SignatureBinders}}
                  : d \in 1..Len(input[u].decls) }
            \cup {input[u].imports[k].name :
                     k \in {j \in 1..Len(input[u].imports) : input[u].imports[j].name # NoName}}
          : u \in 1..Len(input) }

\* C20 (as stated): once CollectAllIdentifiers has returned, usedIdentifiers
\* holds every name bound in a unit of the group, the parameters and named
\* results of every function signature included.
C20_IdentifiersSuperset ==
    pc \notin {"start", "error"} => ClaimedNames \subseteq usedIdentifiers

-----------------------------------------------------------------------------
(* Properties of the Extension *)

\* The README's default configuration: NewExtension() with no option, no
\* environment variable set.
DefaultConfiguration == options = NoOptions /\ env = NoEnv

\* The README's production configuration: WithVerboseLogging(false).
ProductionConfiguration ==
    options = [verboseLogging |-> "false", dryRun |-> Unset] /\ env = NoEnv

\* C21 (as stated): with the default or the production configuration, when
\* code generation has returned without error, Hooks had returned a hook and
\* MergePackage was called on every squishable package.
C21_DefaultExtensionMerges ==
    ((DefaultConfiguration \/ ProductionConfiguration)
        /\ pc = "returned" /\ returned = "nil") =>
            /\ hooks = "hook"
            /\ Len(results) = Len(packages)

-----------------------------------------------------------------------------
(* The input units after MergeASTs *)

\* C22 (as stated): when MergeASTs has returned, with or without an error,
\* every unit holds the imports and declarations, qualified references
\* included, it held when MergeASTs was called.
C22_InputsUnchanged ==
    pc \in {"done", "error"} => fileInfos = input

-----------------------------------------------------------------------------
(* The standard-alias table *)

\* The alias ResolveImportConflicts prefers for a path: the explicit alias of
\* its first occurrence, else its entry in the standard-alias table, else its
\* last segment.
PreferredAlias(path) ==
    IF FirstSpec(path).name # NoName THEN FirstSpec(path).name
    ELSE IF path \in DOMAIN standardAliases THEN standardAliases[path]
    ELSE PackageNameOf(path)

\* C23: the final alias of a path is its preferred alias (explicit alias,
\* else standard alias, else last segment) when that is free: an unaliased
\* path of the table whose standard alias is free ends with the standard
\* alias, and a path first written with an explicit alias that no earlier
\* path has ends with the explicit alias, in the table or not.  A preferred
\* alias that is taken is replaced by what GenerateUniqueAlias returns.
C23_PreferredAliasOrder ==
    Resolved =>
        \A p \in InputPaths :
            LET explicit == FirstSpec(p).name # NoName
                final == FinalAlias(pathToImport[p])
                taken == IF explicit THEN EarlierAliases(p)
                         ELSE IdentifierSet \cup EarlierAliases(p)
            IN /\ PreferredAlias(p) \notin taken => final = PreferredAlias(p)
               /\ PreferredAlias(p) \in taken =>
                     final = GenerateUniqueAlias(
                                 IF explicit THEN PreferredAlias(p) ELSE PackageNameOf(p),
                                 IdentifierSet, EarlierAliasToPath(p))

\* "log" and "x/log" are both imported without a name: "log" has ended with
\* its standard alias stdlog and "x/log" with its last segment log.
C23_Witness ==
    /\ Resolved
    /\ {pLog, pXLog} \subseteq InputPaths
    /\ FirstSpec(pLog).name = NoName
    /\ FirstSpec(pXLog).name = NoName
    /\ FinalAlias(pathToImport[pLog]) = nStdlog
    /\ FinalAlias(pathToImport[pXLog]) = nLog

-----------------------------------------------------------------------------
(* Rewriting a kept declaration *)

\* The declaration the merge loop is at, and the unit it comes from.
AtDeclaration == pc = "merge" /\ ii <= Len(DeclPositions(fileInfos))

CurrentUnit == fileInfos[DeclPositions(fileInfos)[ii][1]]

CurrentDecl == CurrentUnit.decls[DeclPositions(fileInfos)[ii][2]]

\* What updateIdentifiersForDeclaration makes of the current declaration when
\* the range over the unit's alias table visits its keys in the given order.
RewrittenIn(order) ==
    RewriteDecl(CurrentDecl,
                BuildAliasMap(order, FileImportMapping(CurrentUnit), pathToImport))

\* C24 (as stated): rewriting the declaration the merge loop is at replaces
\* each leading identifier once, by the final alias of the original alias it
\* names, and gives the same declaration for every order in which the
\* entries of the unit's alias table are visited.
C24_RewriteOrderIndependent ==
    AtDeclaration =>
        \A o1, o2 \in KeyOrders(FileImportMapping(CurrentUnit)) :
            RewrittenIn(o1) = RewrittenIn(o2)

-----------------------------------------------------------------------------
(* Termination and order of GenerateUniqueAlias *)

\* A candidate is free: not an identifier, not an alias of the table.
Free(candidate) == candidate \notin usedIdentifiers /\ candidate \notin DOMAIN aliasToPath

\* The candidates in the order of the claim: the sanitized base alone when
\* sanitizing changed the base, base+"pkg", base+"pkg"+N for N = 2..1000.
CandidatesInOrder ==
    LET b == SanitizeIdentifier(aliasArg)
    IN (IF b # aliasArg THEN <<b>> ELSE <<>>)
       \o <<b \o Pkg>>
       \o [k \in 1..999 |-> b \o Pkg \o Itoa(k + 1)]

\* The first free candidate, or the numbered fallback when none is free.
FirstFree ==
    IF \E k \in 1..Len(CandidatesInOrder) : Free(CandidatesInOrder[k])
    THEN CandidatesInOrder[CHOOSE k \in 1..Len(CandidatesInOrder) :
                              /\ Free(CandidatesInOrder[k])
                              /\ \A j \in 1..(k - 1) : ~Free(CandidatesInOrder[j])]
    ELSE Pkg \o Itoa(Cardinality(DOMAIN aliasToPath) + 1)

\* C25: every call of GenerateUniqueAlias returns, and what it returns is the
\* first free candidate in the order sanitized base (if changed), base+"pkg",
\* base+"pkg"+N for N = 2..1000, or the numbered fallback when all are taken.
C25_ReturnsFirstFree ==
    /\ [](pc = "generated" => genAlias = FirstFree)
    /\ <>(pc = "generated")

\* GenerateUniqueAlias has returned the last candidate under the cap after
\* finding every earlier one taken.
C25_Witness ==
    /\ pc = "generated"
    /\ genCounter = 1000
    /\ genAlias = genBaseName \o Pkg \o Itoa(1000)
    /\ \A k \in 1..(Len(CandidatesInOrder) - 1) : ~Free(CandidatesInOrder[k])

-----------------------------------------------------------------------------
(* A path imported by several units *)

\* The name a unit refers to an import by: the alias written, else the last
\* segment of the path.
OriginalAlias(imp) == IF imp.name # NoName THEN imp.name ELSE PackageNameOf(imp.path)

\* The paths of the imports ResolveImportConflicts has visited.
VisitedPaths == {InputImports[k].path : k \in 1..(ii - 1)}

\* The entry of a path in pathToImport stays as it is.
EntriesKept ==
    \A p \in DOMAIN pathToImport :
        p \in DOMAIN pathToImport' /\ pathToImport'[p] = pathToImport[p]

\* In the kept declaration at pos, every reference through the j-th import of
\* its unit reads the final alias of that import's path.
RefersByFinalAlias(pos, j) ==
    LET imp == input[pos[1]].imports[j]
    IN \A k \in 1..Len(InputDecl(pos).sel) :
          InputDecl(pos).sel[k] = OriginalAlias(imp)
             => MergedDecl(pos).sel[k] = FinalAlias(pathToImport[imp.path])

-----------------------------------------------------------------------------
(* Properties of the package detector *)

\* The directory FindSquashablePackages was given at a path.
DirAt(path) == dirs[CHOOSE k \in 1..Len(dirs) : dirs[k].path = path]

\* The Go files of a directory: its entries that are files named *.go.
GoFilesOf(dir) ==
    {e.name : e \in {x \in dir.entries :
                        ~x.isDir /\ Len(x.name) >= 3
                                 /\ SubSeq(x.name, Len(x.name) - 2, Len(x.name)) = <<".","g","o">>}}

\* The names of a path below BaseDir, one per directory level.
RECURSIVE Segments(_)
Segments(rel) ==
    IF \E k \in 1..Len(rel) : rel[k] = "/"
    THEN LET k == CHOOSE j \in 1..Len(rel) :
                     rel[j] = "/" /\ \A i \in 1..(j - 1) : rel[i] # "/"
         IN <<SubSeq(rel, 1, k - 1)>> \o Segments(SubSeq(rel, k + 1, Len(rel)))
    ELSE <<rel>>

\* A directory the claim allows to be reported: BaseDir with at least two Go
\* files, or a direct subdirectory that is no special package and whose Go
\* files are <entity>.go and where.go, two files.
MayBeReported(dir) ==
    IF dir.path = BaseDir THEN Cardinality(GoFilesOf(dir)) >= 2
    ELSE LET segs == Segments(SubSeq(dir.path, Len(BaseDir) + 2, Len(dir.path)))
         IN /\ Len(segs) = 1
            /\ segs[1] \notin specialPackages
            /\ Cardinality(GoFilesOf(dir)) = 2
            /\ GoFilesOf(dir) = {segs[1] \o <<".","g","o">>, <<"w","h","e","r","e",".","g","o">>}

\* C27 (as stated): every package FindSquashablePackages returns is BaseDir
\* with at least 2 Go files or a direct, non-special subdirectory with
\* exactly 2 Go files, <entity>.go and where.go; no special package, no
\* directory below one and no nested directory is returned.
C27_OnlySquishableReported ==
    pc = "found" =>
        \A k \in 1..Len(found) : MayBeReported(DirAt(found[k].Path))

-----------------------------------------------------------------------------
(* Declarations MergeASTs drops *)

\* The kind of a declaration: a function with a receiver is a method.
KindOf(decl) ==
    IF decl.kind = "func" /\ decl.recv # NoRecv THEN "method" ELSE decl.kind

\* The type a receiver expression names: T for T, *T, T[K] and *T[K].
RECURSIVE ReceiverType(_)
ReceiverType(expr) ==
    CASE expr.op = "ident" -> expr.name
      [] expr.op = "star"  -> ReceiverType(expr.x)
      [] expr.op = "index" -> ReceiverType(expr.x)
      [] OTHER -> <<>>

\* Two declarations of the same kind and names and, for methods, of the same
\* receiver type.
SameDeclaration(a, b) ==
    /\ KindOf(a) = KindOf(b)
    /\ a.names = b.names
    /\ KindOf(a) = "method" => ReceiverType(a.recv) = ReceiverType(b.recv)

\* C28 (as stated): MergeASTs drops a declaration only if an earlier kept
\* declaration has the same kind, the same name and, for a method, the same
\* receiver type, whatever the shape of the receiver type expression.
C28_DropsOnlyRepeats ==
    pc = "done" =>
        \A b \in InputDeclPositions \ KeptPositions :
            \E a \in KeptPositions :
                PosLess(a, b) /\ SameDeclaration(InputDecl(a), InputDecl(b))

-----------------------------------------------------------------------------
(* Qualified references after dot and blank imports *)

\* The leading identifiers of the qualified references of the merged unit.
MergedLeadingIdentifiers ==
    UNION { {MergedDecl(pos).sel[j] : j \in 1..Len(MergedDecl(pos).sel)}
          : pos \in KeptPositions }

\* C29 (as stated): after MergeASTs no qualified reference of a merged
\* declaration has "." or "_" as its leading identifier, also when a path is
\* a dot or blank import in one unit and a regular import in another.
C29_NoMarkerAsQualifier ==
    pc = "done" => MergedLeadingIdentifiers \cap {nDot, nBlank} = {}

====
